---- MODULE Spec2Model ----
(***************************************************************************)
(* A model of the anytls-rs session layer: the frame codec, the padding    *)
(* engine, and one Session with the tasks that use it (Session::run, the   *)
(* caller of open_stream, the per-stream frame writer tasks) over one      *)
(* transport guarded by the tokio Mutex `conn`.                            *)
(***************************************************************************)
EXTENDS Integers, Sequences, FiniteSets, TLC

(***************************************************************************)
(* Frame codec (proxy/session/frame.rs)                                    *)
(***************************************************************************)
CMD_WASTE == 0
CMD_SYN == 1
CMD_PSH == 2
CMD_FIN == 3
CMD_SETTINGS == 4
CMD_ALERT == 5
CMD_UPDATE_PADDING_SCHEME == 6
CMD_SYNACK == 7
CMD_HEART_REQUEST == 8
CMD_HEART_RESPONSE == 9
CMD_SERVER_SETTINGS == 10
HEADER_OVERHEAD_SIZE == 7
CHECK_MARK == -1

\* put_u32 / put_u16: big-endian bytes of a value, truncated to the width.
PutU32(n) ==
    << (n \div 16777216) % 256, (n \div 65536) % 256, (n \div 256) % 256, n % 256 >>

\* A faulty PutU16: the high byte of the length is dropped.
PutU16LowByte(n) ==
    << 0, n % 256 >>

PutU16(n) ==
    << (n \div 256) % 256, n % 256 >>

\* get_u32 / get_u16 on a byte slice starting at position i.
GetU32(b, i) ==
    b[i] * 16777216 + b[i + 1] * 65536 + b[i + 2] * 256 + b[i + 3]

GetU16(b, i) ==
    b[i] * 256 + b[i + 1]

\* Frame::new and Frame::with_data.
FrameNew(cmd, sid) ==
    [cmd |-> cmd, sid |-> sid, data |-> << >>]

FrameWithData(cmd, sid, data) ==
    [cmd |-> cmd, sid |-> sid, data |-> data]

\* Frame::to_bytes: cmd, sid, `data.len() as u16`, data.
ToBytes(f) ==
    << f.cmd % 256 >> \o PutU32(f.sid) \o PutU16(Len(f.data)) \o f.data

Drop(s, n) ==
    SubSeq(s, n + 1, Len(s))

\* Frame::from_bytes: Err when the header or the payload is short; else the
\* frame of the first 7 + length bytes (bytes after them are left alone).
\* `used` is the number of bytes the frame was read from.
FromBytes(buf) ==
    IF Len(buf) < HEADER_OVERHEAD_SIZE
    THEN [ok |-> FALSE, frame |-> [cmd |-> 0, sid |-> 0, data |-> << >>], used |-> 0]
    ELSE LET length == GetU16(buf, 6)
         IN  IF Len(buf) - HEADER_OVERHEAD_SIZE < length
             THEN [ok |-> FALSE, frame |-> [cmd |-> 0, sid |-> 0, data |-> << >>],
                   used |-> 0]
             ELSE [ok    |-> TRUE,
                   frame |-> [cmd  |-> buf[1],
                              sid  |-> GetU32(buf, 2),
                              data |-> SubSeq(buf, HEADER_OVERHEAD_SIZE + 1,
                                              HEADER_OVERHEAD_SIZE + length)],
                   used  |-> HEADER_OVERHEAD_SIZE + length]

Take(s, n) ==
    SubSeq(s, 1, n)

\* What the receiving pump does with a byte stream (recv_loop): read 7 header
\* bytes, then `length` payload bytes, again and again.  The result is the
\* sequence of complete frames, and the bytes left over when a header or a
\* payload is incomplete.
RECURSIVE ParseFrames(_)
ParseFrames(b) ==
    IF Len(b) < HEADER_OVERHEAD_SIZE
    THEN [frames |-> << >>, rest |-> b]
    ELSE LET length == GetU16(b, 6)
         IN  IF Len(b) < HEADER_OVERHEAD_SIZE + length
             THEN [frames |-> << >>, rest |-> b]
             ELSE LET f == [cmd |-> b[1], sid |-> GetU32(b, 2),
                            data |-> SubSeq(b, 8, 7 + length)]
                      r == ParseFrames(Drop(b, HEADER_OVERHEAD_SIZE + length))
                  IN  [frames |-> << f >> \o r.frames, rest |-> r.rest]

(***************************************************************************)
(* Padding factory (proxy/padding/mod.rs)                                  *)
(*                                                                         *)
(* A scheme is [stop |-> n, lines |-> f] where f maps a packet index to    *)
(* the parsed entries of its line: "c", or a range for "lo-hi".            *)
(***************************************************************************)
Min(a, b) == IF a < b THEN a ELSE b

Max(a, b) == IF a < b THEN b ELSE a

\* Parsed entries of a scheme line.
CheckEntry ==
    [kind |-> "c", lo |-> 0, hi |-> 0]

RangeEntry(lo, hi) ==
    [kind |-> "range", lo |-> lo, hi |-> hi]

\* The sizes one entry can yield: CHECK_MARK for "c"; for "lo-hi" the range
\* after (min.min(max), min.max(max)), nothing unless both are positive, one
\* value when min = max, any value of the range otherwise (rng.gen_range).
EntrySizes(e) ==
    IF e.kind = "c"
    THEN { << CHECK_MARK >> }
    ELSE LET lo == Min(e.lo, e.hi)
             hi == Max(e.lo, e.hi)
         IN  IF lo > 0 /\ hi > 0
             THEN { << n >> : n \in lo .. hi }
             ELSE { << >> }

RECURSIVE PlansOfEntries(_)
PlansOfEntries(es) ==
    IF es = << >>
    THEN { << >> }
    ELSE { h \o t : h \in EntrySizes(Head(es)), t \in PlansOfEntries(Tail(es)) }

\* generate_record_payload_sizes(pkt): the plans the call can return.
GenerateRecordPayloadSizes(scheme, pkt) ==
    IF pkt \in DOMAIN scheme.lines
    THEN PlansOfEntries(scheme.lines[pkt])
    ELSE { << >> }

Zeros(n) ==
    [i \in 1 .. n |-> 0]

\* padding.rng_vec(n): n bytes whose content the receiver discards.
RngVec(n) ==
    Zeros(n)

(***************************************************************************)
(* Session::write_with_padding, the walk over the plan (session.rs)        *)
(***************************************************************************)
SaturatingSub(a, b) ==
    IF a > b THEN a - b ELSE 0

\* The synthesized WASTE header: put_u8(CMD_WASTE), put_u32(0), put_u16(len).
WasteHeader(len) ==
    << CMD_WASTE >> \o PutU32(0) \o PutU16(len)

\* A faulty LastPayloadPacket: the padding of the last payload bytes is left out.
LastPayloadPacketNoPadding(size, remaining) ==
    remaining

\* The packet of the branch "padding and the last part of the payload":
\* the WASTE header, then `remaining`, then rng_vec(padding_len); or
\* `remaining` alone when padding_len is 0.
LastPayloadPacket(size, remaining) ==
    LET padding_len == SaturatingSub(size, Len(remaining) + HEADER_OVERHEAD_SIZE)
    IN  IF padding_len > 0
        THEN WasteHeader(padding_len) \o remaining \o RngVec(padding_len)
        ELSE remaining

\* The packet of the branch "all padding", for size >= HEADER_OVERHEAD_SIZE.
AllPaddingPacket(size) ==
    WasteHeader(size - HEADER_OVERHEAD_SIZE) \o RngVec(size - HEADER_OVERHEAD_SIZE)

\* The for loop over pkt_sizes and the write of what remains after it.  The
\* result is the sequence of conn.write_all calls (one byte string each), for
\* each call the plan size it belongs to (0 for the write after the loop) and
\* remaining.len() when its step began, and whether the walk panicked:
\* `size - HEADER_OVERHEAD_SIZE` on usize with size < 7 overflows (a panic in
\* a debug build; in a release build the wrapped length reaches rng_vec and
\* the allocation panics), and nothing is written for that step.
WalkStep(bytes, size, remaining, r) ==
    [writes |-> << bytes >> \o r.writes,
     sizes  |-> << size >> \o r.sizes,
     rems   |-> << Len(remaining) >> \o r.rems,
     panic  |-> r.panic]

WalkEnd(panic) ==
    [writes |-> << >>, sizes |-> << >>, rems |-> << >>, panic |-> panic]

RECURSIVE WalkPlan(_, _)
WalkPlan(plan, remaining) ==
    IF plan = << >>
    THEN IF remaining # << >>
         THEN WalkStep(remaining, 0, remaining, WalkEnd(FALSE))
         ELSE WalkEnd(FALSE)
    ELSE LET size == Head(plan)
         IN  IF size = CHECK_MARK
             THEN IF remaining = << >>
                  THEN WalkEnd(FALSE)
                  ELSE WalkPlan(Tail(plan), remaining)
             ELSE IF Len(remaining) > size
             THEN WalkStep(Take(remaining, size), size, remaining,
                           WalkPlan(Tail(plan), Drop(remaining, size)))
             ELSE IF remaining # << >>
             THEN WalkStep(LastPayloadPacket(size, remaining), size, remaining,
                           WalkPlan(Tail(plan), << >>))
             ELSE IF size < HEADER_OVERHEAD_SIZE
             THEN WalkEnd(TRUE)
             ELSE WalkStep(AllPaddingPacket(size), size, remaining,
                           WalkPlan(Tail(plan), << >>))

(***************************************************************************)
(* Texts as byte sequences: StringMap::from_bytes (util/string_map.rs),    *)
(* str::parse::<u32>, PaddingFactory::new (padding/mod.rs)                 *)
(***************************************************************************)
\* The first index of x in s, 0 when there is none (str::find).
IndexOf(s, x) ==
    IF \E i \in 1 .. Len(s) : s[i] = x
    THEN CHOOSE i \in 1 .. Len(s) : s[i] = x /\ \A j \in 1 .. i - 1 : s[j] # x
    ELSE 0

\* The positions of the separator sep in s.
SepPositions(s, sep) ==
    { j \in 1 .. Len(s) : s[j] = sep }

\* The position of the k-th separator; 0 stands before the first piece and
\* Len(s) + 1 behind the last one.
NthSep(s, sep, k) ==
    LET seps == SepPositions(s, sep)
    IN  IF k = 0
        THEN 0
        ELSE IF k > Cardinality(seps)
             THEN Len(s) + 1
             ELSE CHOOSE j \in seps : Cardinality({ i \in seps : i <= j }) = k

\* s.split(sep): the pieces between the separators, at least one piece.
Split(s, sep) ==
    [k \in 1 .. Cardinality(SepPositions(s, sep)) + 1 |->
        SubSeq(s, NthSep(s, sep, k - 1) + 1, NthSep(s, sep, k) - 1)]

EmptyMap ==
    [k \in {} |-> << >>]

\* The loop of from_bytes over the lines: an empty line and a line without
\* '=' are skipped, the first '=' splits key from value, and a later line
\* overrides an earlier one with the same key.
MapOfLines(lines) ==
    LET Key(i)   == SubSeq(lines[i], 1, IndexOf(lines[i], 61) - 1)
        Value(i) == SubSeq(lines[i], IndexOf(lines[i], 61) + 1, Len(lines[i]))
        entries  == { i \in 1 .. Len(lines) : IndexOf(lines[i], 61) # 0 }
    IN  [k \in { Key(i) : i \in entries } |->
            Value(CHOOSE i \in entries :
                      /\ Key(i) = k
                      /\ \A j \in entries : Key(j) = k => j <= i)]

\* StringMap::from_bytes in the "key=value\n" format: the map of the lines
\* of data, split at '\n'.
StringMapFromBytes(data) ==
    IF data = << >>
    THEN EmptyMap
    ELSE CHOOSE map \in { MapOfLines(lines) : lines \in {Split(data, 10)} } : TRUE

\* The value of the first n of a run of decimal digits.
RECURSIVE DigitsValue(_, _)
DigitsValue(s, n) ==
    IF n = 0 THEN 0 ELSE 10 * DigitsValue(s, n - 1) + (s[n] - 48)

\* The longest text of digits the model parses; longer ones take the
\* overflow branch of parse::<u32>.
MaxDigits == 9

\* text.parse::<u32>(): an optional '+', then one digit or more; everything
\* else is an Err.
ParseU32(text) ==
    LET digits == IF text # << >> /\ text[1] = 43 THEN Tail(text) ELSE text
    IN  IF /\ digits # << >>
           /\ Len(digits) <= MaxDigits
           /\ \A i \in 1 .. Len(digits) : digits[i] \in 48 .. 57
        THEN [ok |-> TRUE, value |-> DigitsValue(digits, Len(digits))]
        ELSE [ok |-> FALSE, value |-> 0]

\* format!("{}", n) of an unsigned number.
RECURSIVE DecimalText(_)
DecimalText(n) ==
    IF n < 10 THEN << 48 + n >> ELSE Append(DecimalText(n \div 10), 48 + (n % 10))

\* One lower-case hexadecimal digit.
HexDigit(d) ==
    IF d < 10 THEN 48 + d ELSE 87 + d

\* The sum of i * s[i] over the first n bytes of s.
RECURSIVE WeightedSum(_, _)
WeightedSum(s, n) ==
    IF n = 0 THEN 0 ELSE WeightedSum(s, n - 1) + n * s[n]

\* format!("{:x}", md5::compute(raw)): the digest of the md5 crate stands
\* outside the repository; here it is a one-byte position-weighted checksum,
\* written as two hexadecimal digits.  The scheme bodies of the model have
\* pairwise different digests.
Md5(raw) ==
    LET sum == WeightedSum(raw, Len(raw)) % 256
    IN  << HexDigit(sum \div 16), HexDigit(sum % 16) >>

\* The keys "stop", "v" and "padding-md5".
KeyStop ==
    << 115, 116, 111, 112 >>

KeyV ==
    << 118 >>

KeyPaddingMd5 ==
    << 112, 97, 100, 100, 105, 110, 103, 45, 109, 100, 53 >>

\* PaddingFactory::new(raw_scheme): None for an empty map, for a map without
\* "stop" and for a stop that is no u32; else the factory with its stop, its
\* raw text and the digest of the raw text.
PaddingFactoryNew(raw) ==
    LET New(scheme) ==
            LET stop == IF KeyStop \in DOMAIN scheme
                        THEN ParseU32(scheme[KeyStop])
                        ELSE [ok |-> FALSE, value |-> 0]
            IN  IF DOMAIN scheme = {} \/ ~stop.ok
                THEN [ok |-> FALSE, stop |-> 0, raw |-> << >>, md5 |-> << >>]
                ELSE [ok |-> TRUE, stop |-> stop.value, raw |-> raw, md5 |-> Md5(raw)]
    IN  CHOOSE new \in { New(scheme) : scheme \in {StringMapFromBytes(raw)} } : TRUE

(***************************************************************************)
(* One Session and its tasks (session.rs, client.rs, stream.rs)            *)
(***************************************************************************)
\* Bounds of the model.
MaxStreams == 2
MaxWrites == 2
MaxInbound == 1

\* The padding scheme of the modelled session:
\*   stop=2
\*   0=4-4,c,20-20
\*   1=7-7,c,1-1,3-3
\* Under line 1 a SYN (7 bytes) ends at the check mark, a SETTINGS frame (10
\* bytes) is cut in three, and a PSH frame (8 bytes) is exhausted before the
\* size 3, which then overflows.
ModelSchemeBody ==
    << 115, 116, 111, 112, 61, 50, 10, 48, 61, 52, 45, 52, 44, 99, 44, 50,
       48, 45, 50, 48, 10, 49, 61, 55, 45, 55, 44, 99, 44, 49, 45, 49, 44,
       51, 45, 51 >>

ModelScheme ==
    [stop  |-> PaddingFactoryNew(ModelSchemeBody).stop,
     lines |-> (0 :> << RangeEntry(4, 4), CheckEntry, RangeEntry(20, 20) >>)
            @@ (1 :> << RangeEntry(7, 7), CheckEntry, RangeEntry(1, 1),
                        RangeEntry(3, 3) >>),
     raw   |-> ModelSchemeBody,
     md5   |-> PaddingFactoryNew(ModelSchemeBody).md5]

\* The body of the client's SETTINGS frame, cut down to its line "v=2".
ClientSettingsBody ==
    << 118, 61, 50 >>

\* The sids the peer puts in its heartbeat requests.
InboundSids == {0, 42}

\* The frames the peer can send.
InboundFrames ==
    { FrameNew(CMD_HEART_REQUEST, sid) : sid \in InboundSids }
        \cup { FrameNew(CMD_HEART_RESPONSE, 0), FrameWithData(CMD_WASTE, 0, << 0 >>) }

Sids == 1 .. MaxStreams

\* The task spawned in open_stream for stream sid, and the Session clone it owns.
WriterName(sid) ==
    "w" \o ToString(sid)

Writers == { WriterName(sid) : sid \in Sids }

Tasks == {"run", "app"} \cup Writers

\* The Session value a task calls write_frame on: the session itself ("s") for
\* Session::run and for the caller of open_stream, its own clone for a writer.
Handle(t) ==
    IF t \in Writers THEN t ELSE "s"

Handles == {"s"} \cup Writers

\* Stream::new: not closed, no partly read buffer (<< >> stands for None);
\* `dropped` tells that the Stream value is gone.
NewStream ==
    [closed |-> FALSE, read_buffer |-> << >>, read_offset |-> 0, dropped |-> FALSE]

\* Nothing delivered to, read from or called on a stream: the bytes put on
\* its data channel, the bytes its reads returned, whether a read returned
\* EOF, the number of poll_shutdown calls, the results of its writes.
NoLog ==
    [delivered |-> << >>, got |-> << >>, eof |-> FALSE, shutdowns |-> 0,
     writes |-> << >>]

NoCall ==
    [sub |-> 0, data |-> << >>, writes |-> << >>, sizes |-> << >>,
     clear |-> FALSE, panic |-> FALSE, ret |-> "none"]

VARIABLES
    is_client,        \* Session.is_client
    padding,          \* Session.padding (the scheme)
    closed,           \* Session.closed
    settings_sent,    \* Session.settings_sent
    next_stream_id,   \* Session.next_stream_id
    streams,          \* keys of Session.streams
    pkt_counter,      \* pkt_counter of each Session value (session and clones)
    send_padding,     \* send_padding of each Session value
    buffering,        \* buffering of each Session value
    buffer,           \* Session.buffer (shared by the clones)
    conn_holder,      \* who holds the Mutex `conn`: a task, "recv_loop" or "none"
    conn_waiters,     \* the FIFO queue of the tasks waiting for `conn`
    transport,        \* what has been written to the transport, one entry per write_all
    inbound,          \* frames sent by the peer and not yet read
    frame_ch,         \* the frame channel of each stream (frame_tx -> frame_rx)
    pc,               \* where each task is
    cur,              \* the write_frame call each task is in
    snap,             \* the fields read so far by the clone in open_stream
    app_sid,          \* stream_id of the open_stream call in progress
    opened,           \* sids whose open_stream returned Ok(stream)
    n_writes,         \* poll_write calls made on each stream
    n_inbound,        \* frames the peer has sent
    submitted,        \* history: the write_frame calls, in the order of conn.lock()
    returned,         \* history: the calls of write_frame that returned Ok
    pktlog,           \* history: the pkt values assigned by write_with_padding
    hb_seen,          \* history: the sids of the HEART_REQUEST frames handled
    pad,              \* one call of write_with_padding on its own: input, plan, output
    codec,            \* one frame through to_bytes and from_bytes on its own
    data_ch,          \* the data channel of each stream (data_tx -> Stream.rx)
    handled,          \* history: the frames recv_loop passed to handle_frame
    closed_sids,      \* history: the sids removed from Session.streams
    strm,             \* the Stream value of each stream: closed, read_buffer, read_offset
    rlog,             \* history of each stream: bytes delivered and read, results of its calls
    pool,             \* the Client: idle_sessions, min_idle_sessions, closed
    auth              \* handle_connection of the server on its own

vars ==
    << is_client, padding, closed, settings_sent, next_stream_id, streams,
       pkt_counter, send_padding, buffering, buffer, conn_holder, conn_waiters,
       transport, inbound, frame_ch, pc, cur, snap, app_sid, opened, n_writes,
       n_inbound, submitted, returned, pktlog, hb_seen, pad, codec, data_ch,
       handled, closed_sids, strm, rlog, pool, auth >>

\* Session::new_client / Session::new_server, and Client::create_session, which
\* spawns Session::run and hands the session to the caller.
SessionInit ==
    /\ padding = ModelScheme
    /\ closed = FALSE
    /\ settings_sent = FALSE
    /\ next_stream_id = 1
    /\ streams = {}
    /\ pkt_counter = [h \in Handles |-> 0]
    /\ send_padding = [h \in Handles |-> h = "s" /\ is_client]
    /\ buffering = [h \in Handles |-> FALSE]
    /\ buffer = << >>
    /\ conn_holder = "none"
    /\ conn_waiters = << >>
    /\ transport = << >>
    /\ inbound = << >>
    /\ frame_ch = [sid \in Sids |-> << >>]
    /\ pc = [t \in Tasks |-> CASE t = "run" -> "run_start"
                               [] t = "app" -> "idle"
                               [] OTHER     -> "unborn"]
    /\ cur = [t \in Tasks |-> NoCall]
    /\ snap = [pkt_counter |-> 0, send_padding |-> FALSE]
    /\ app_sid = 0
    /\ opened = {}
    /\ n_writes = [sid \in Sids |-> 0]
    /\ n_inbound = 0
    /\ submitted = << >>
    /\ returned = {}
    /\ pktlog = << >>
    /\ hb_seen = {}
    /\ data_ch = [sid \in Sids |-> << >>]
    /\ handled = << >>
    /\ closed_sids = {}
    /\ strm = [sid \in Sids |-> NewStream]
    /\ rlog = [sid \in Sids |-> NoLog]

PadOff ==
    [pc |-> "off", pkt |-> 0, line |-> << >>, data |-> << >>, plan |-> << >>,
     out |-> WalkEnd(FALSE)]

CodecOff ==
    [pc |-> "off", frame |-> [cmd |-> 0, sid |-> 0, data |-> << >>],
     wire |-> << >>, err |-> FALSE,
     parsed |-> [ok |-> FALSE, frame |-> [cmd |-> 0, sid |-> 0, data |-> << >>],
                 used |-> 0]]

\* `got` is what the last get_idle_session returned (0 for None); `op`,
\* `arg` and `handle` name the last call made and the Client value it was
\* made on.  `idle_for` is, for each session of `idle`, the time it has been
\* there; `ended` are the sessions on which Session::close was called,
\* `failed` those whose Session::run returned an error; `reaped` the sessions
\* the last cleanup closed; `used`, `dialled` and `result` tell which session
\* the last create_stream called open_stream on, whether it dialled, and
\* what it returned (0, FALSE and "none" after any other call); `served` are
\* the sessions on which a create_stream got its Stream; `dials` counts the
\* sessions dialled.  `closed` is the
\* flag of the Client value made by Client::new, `clone_closed` that of a
\* clone of it, `task_closed` that of the clone the cleanup task owns.
PoolOff ==
    [pc |-> "off", idle |-> << >>, min_idle_sessions |-> 0, closed |-> FALSE,
     got |-> 0, op |-> "none", arg |-> 0,
     idle_for |-> << >>, ended |-> {}, failed |-> {}, reaped |-> {},
     used |-> 0, dialled |-> FALSE, result |-> "none", dials |-> 0, served |-> {},
     handle |-> "none", clone_made |-> FALSE, clone_closed |-> FALSE,
     task_closed |-> FALSE, task |-> "running"]

\* `input` is what the client sends, `pos` how much of it was read, `wrote`
\* whether anything was written back, `session` whether Session::new_server
\* was called, `header_at` the number of bytes read before the first frame
\* header.
AuthOff ==
    [pc |-> "off", input |-> << >>, pos |-> 0, padding_len |-> 0,
     wrote |-> FALSE, session |-> FALSE, header_at |-> 0]

Init ==
    /\ is_client \in BOOLEAN
    /\ SessionInit
    /\ pad = PadOff
    /\ codec = CodecOff
    /\ pool = PoolOff
    /\ auth = AuthOff

\* A faulty LockRequest: the lock is handed out although it is held.
LockRequestNoWait(who) ==
    conn_holder' = who /\ UNCHANGED conn_waiters

\* conn.lock().await of the fair tokio Mutex: taken at once when free, else
\* the caller joins the queue.
LockRequest(who) ==
    IF conn_holder = "none" /\ conn_waiters = << >>
    THEN conn_holder' = who /\ UNCHANGED conn_waiters
    ELSE conn_waiters' = Append(conn_waiters, who) /\ UNCHANGED conn_holder

\* Drop of the MutexGuard: the lock passes to the first waiter.
LockRelease ==
    IF conn_waiters = << >>
    THEN conn_holder' = "none" /\ UNCHANGED conn_waiters
    ELSE conn_holder' = Head(conn_waiters) /\ conn_waiters' = Tail(conn_waiters)

\* write_frame(frame) up to conn.lock().await in write_conn; `ret` is where
\* the task goes on when the call returns.
WriteFrameCall(t, frame, ret) ==
    /\ cur' = [cur EXCEPT ![t] = [NoCall EXCEPT !.sub = Len(submitted) + 1,
                                                 !.data = ToBytes(frame),
                                                 !.ret = ret]]
    /\ submitted' = Append(submitted, [task |-> t, h |-> Handle(t), frame |-> frame])
    /\ LockRequest(t)

\* The end of a write_frame call: the guard of `conn` is dropped and the task
\* goes on at `ret`, or is gone when the walk over the plan panicked.
WriteReturn(t, sub, ret, panic) ==
    /\ LockRelease
    /\ pc' = [pc EXCEPT ![t] = IF panic THEN "panicked" ELSE ret]
    /\ returned' = IF panic THEN returned ELSE returned \cup {sub}
    /\ cur' = [cur EXCEPT ![t] = NoCall]

\* The write_all calls still to make, handed to the task that holds `conn`.
WriteStart(t, writes, sizes, clear, panic) ==
    IF writes = << >>
    THEN WriteReturn(t, cur[t].sub, cur[t].ret, panic)
    ELSE /\ cur' = [cur EXCEPT ![t].writes = writes, ![t].sizes = sizes,
                               ![t].clear = clear, ![t].panic = panic]
         /\ pc' = [pc EXCEPT ![t] = "write_all"]
         /\ UNCHANGED << conn_holder, conn_waiters, returned >>

\* write_conn once the lock is held: defer into the buffer while buffering
\* is on; else write_with_padding up to the plan (pkt_counter.fetch_add, the
\* comparison with stop, generate_record_payload_sizes); else a plain write.
WriteConn(t) ==
    /\ pc[t] = "write_conn"
    /\ conn_holder = t
    /\ LET h == Handle(t)
           c == cur[t]
           pkt == pkt_counter[h]
       IN  IF buffering[h]
           THEN /\ buffer' = buffer \o c.data
                /\ WriteReturn(t, c.sub, c.ret, FALSE)
                /\ UNCHANGED << pkt_counter, pktlog >>
           ELSE /\ UNCHANGED buffer
                /\ IF send_padding[h]
                   THEN /\ pkt_counter' = [pkt_counter EXCEPT ![h] = pkt + 1]
                        /\ pktlog' = Append(pktlog, [sub |-> c.sub, h |-> h, pkt |-> pkt])
                        /\ IF pkt < padding.stop
                           THEN \E plan \in GenerateRecordPayloadSizes(padding, pkt) :
                                    LET w == WalkPlan(plan, c.data)
                                    IN  WriteStart(t, w.writes, w.sizes, FALSE, w.panic)
                           ELSE WriteStart(t, << c.data >>, << 0 >>, TRUE, FALSE)
                   ELSE /\ WriteStart(t, << c.data >>, << 0 >>, FALSE, FALSE)
                        /\ UNCHANGED << pkt_counter, pktlog >>
    /\ UNCHANGED << pad, codec, pool, auth, strm, rlog, data_ch, handled, closed_sids, is_client, padding, closed, settings_sent, next_stream_id, streams,
                    send_padding, buffering, transport, inbound, frame_ch, snap,
                    app_sid, opened, n_writes, n_inbound, submitted, hb_seen >>

\* A faulty SendPaddingStoreFalse: the store is left out.
SendPaddingStoreFalseSkipped(h) ==
    send_padding

\* self.send_padding.store(false, ..) on the Session value h.
SendPaddingStoreFalse(h) ==
    [send_padding EXCEPT ![h] = FALSE]

\* One conn.write_all of the call (preceded by send_padding.store(false) on
\* the branch pkt >= stop); after the last one the call returns.
WriteAll(t) ==
    /\ pc[t] = "write_all"
    /\ LET c == cur[t]
       IN  /\ send_padding' = IF c.clear
                              THEN SendPaddingStoreFalse(Handle(t))
                              ELSE send_padding
           /\ transport' = Append(transport, [sub |-> c.sub, bytes |-> Head(c.writes),
                                              size |-> Head(c.sizes)])
           /\ IF Tail(c.writes) = << >>
              THEN WriteReturn(t, c.sub, c.ret, c.panic)
              ELSE /\ cur' = [cur EXCEPT ![t].writes = Tail(c.writes),
                                         ![t].sizes = Tail(c.sizes),
                                         ![t].clear = FALSE]
                   /\ UNCHANGED << pc, conn_holder, conn_waiters, returned >>
    /\ UNCHANGED << pad, codec, pool, auth, strm, rlog, data_ch, handled, closed_sids, is_client, padding, closed, settings_sent, next_stream_id, streams,
                    pkt_counter, buffering, buffer, inbound, frame_ch, snap, app_sid,
                    opened, n_writes, n_inbound, submitted, pktlog, hb_seen >>

(***************************************************************************)
(* Session::run: send_client_settings, then recv_loop                      *)
(***************************************************************************)
SettingsFrame ==
    FrameWithData(CMD_SETTINGS, 0, ClientSettingsBody)

\* run, and send_client_settings up to the lock of its write_control_frame.
RunStart ==
    /\ pc["run"] = "run_start"
    /\ IF is_client /\ ~settings_sent
       THEN /\ settings_sent' = TRUE
            /\ WriteFrameCall("run", SettingsFrame, "store_buffering")
            /\ pc' = [pc EXCEPT !["run"] = "write_conn"]
       ELSE /\ pc' = [pc EXCEPT !["run"] = "recv_req"]
            /\ UNCHANGED << settings_sent, cur, submitted, conn_holder, conn_waiters >>
    /\ UNCHANGED << pad, codec, pool, auth, strm, rlog, data_ch, handled, closed_sids, is_client, padding, closed, next_stream_id, streams, pkt_counter,
                    send_padding, buffering, buffer, transport, inbound, frame_ch,
                    snap, app_sid, opened, n_writes, n_inbound, returned, pktlog,
                    hb_seen >>

\* send_client_settings after the frame went out: buffering.store(true).
StoreBuffering ==
    /\ pc["run"] = "store_buffering"
    /\ buffering' = [buffering EXCEPT !["s"] = TRUE]
    /\ pc' = [pc EXCEPT !["run"] = "recv_req"]
    /\ UNCHANGED << pad, codec, pool, auth, strm, rlog, data_ch, handled, closed_sids, is_client, padding, closed, settings_sent, next_stream_id, streams,
                    pkt_counter, send_padding, buffer, conn_holder, conn_waiters,
                    transport, inbound, frame_ch, cur, snap, app_sid, opened, n_writes,
                    n_inbound, submitted, returned, pktlog, hb_seen >>

\* recv_loop: `let mut conn = self.conn.lock().await`, a guard that lives as
\* long as the loop.
RecvLock ==
    /\ pc["run"] = "recv_req"
    /\ LockRequest("recv_loop")
    /\ pc' = [pc EXCEPT !["run"] = "recv_wait"]
    /\ UNCHANGED << pad, codec, pool, auth, strm, rlog, data_ch, handled, closed_sids, is_client, padding, closed, settings_sent, next_stream_id, streams,
                    pkt_counter, send_padding, buffering, buffer, transport, inbound,
                    frame_ch, cur, snap, app_sid, opened, n_writes, n_inbound,
                    submitted, returned, pktlog, hb_seen >>

RecvLocked ==
    /\ pc["run"] = "recv_wait"
    /\ conn_holder = "recv_loop"
    /\ pc' = [pc EXCEPT !["run"] = "recv_loop"]
    /\ UNCHANGED << pad, codec, pool, auth, strm, rlog, data_ch, handled, closed_sids, is_client, padding, closed, settings_sent, next_stream_id, streams,
                    pkt_counter, send_padding, buffering, buffer, conn_holder,
                    conn_waiters, transport, inbound, frame_ch, cur, snap, app_sid,
                    opened, n_writes, n_inbound, submitted, returned, pktlog, hb_seen >>

\* The head of the loop: leave with Err when the session is closed.
RecvCheckClosed ==
    /\ pc["run"] = "recv_loop"
    /\ IF closed
       THEN /\ LockRelease
            /\ pc' = [pc EXCEPT !["run"] = "run_done"]
       ELSE /\ pc' = [pc EXCEPT !["run"] = "recv_read"]
            /\ UNCHANGED << conn_holder, conn_waiters >>
    /\ UNCHANGED << pad, codec, pool, auth, strm, rlog, data_ch, handled, closed_sids, is_client, padding, closed, settings_sent, next_stream_id, streams,
                    pkt_counter, send_padding, buffering, buffer, transport, inbound,
                    frame_ch, cur, snap, app_sid, opened, n_writes, n_inbound,
                    submitted, returned, pktlog, hb_seen >>

\* read_exact of a header and its payload, then handle_frame for
\* CMD_HEART_REQUEST: write_control_frame(Frame::new(CMD_HEART_RESPONSE, sid)),
\* which asks for `conn` while the guard of recv_loop is alive.
RecvHeartRequest ==
    /\ pc["run"] = "recv_read"
    /\ inbound # << >>
    /\ Head(inbound).cmd = CMD_HEART_REQUEST
    /\ inbound' = Tail(inbound)
    /\ handled' = Append(handled, Head(inbound))
    /\ hb_seen' = hb_seen \cup {Head(inbound).sid}
    /\ WriteFrameCall("run", FrameNew(CMD_HEART_RESPONSE, Head(inbound).sid), "recv_loop")
    /\ pc' = [pc EXCEPT !["run"] = "write_conn"]
    /\ UNCHANGED << pad, codec, pool, auth, strm, rlog, data_ch, closed_sids, is_client, padding, closed, settings_sent, next_stream_id, streams,
                    pkt_counter, send_padding, buffering, buffer, transport, frame_ch,
                    snap, app_sid, opened, n_writes, n_inbound, returned, pktlog >>

\* handle_frame for CMD_WASTE and CMD_HEART_RESPONSE: nothing but a log line.
RecvIgnored ==
    /\ pc["run"] = "recv_read"
    /\ inbound # << >>
    /\ Head(inbound).cmd \in {CMD_WASTE, CMD_HEART_RESPONSE}
    /\ inbound' = Tail(inbound)
    /\ handled' = Append(handled, Head(inbound))
    /\ pc' = [pc EXCEPT !["run"] = "recv_loop"]
    /\ UNCHANGED << pad, codec, pool, auth, strm, rlog, data_ch, closed_sids, is_client, padding, closed, settings_sent, next_stream_id, streams,
                    pkt_counter, send_padding, buffering, buffer, conn_holder,
                    conn_waiters, transport, frame_ch, cur, snap, app_sid, opened,
                    n_writes, n_inbound, submitted, returned, pktlog, hb_seen >>

(***************************************************************************)
(* Session::open_stream, called by Client::create_stream                   *)
(***************************************************************************)
\* Capacity of the frame channel of a stream: mpsc::channel(100).
FrameChannelCap == 100

\* A faulty FetchAdd: the counter stays where it is.
FetchAddNothing(n) ==
    n

\* The value next_stream_id.fetch_add(1, ..) leaves in the counter.
FetchAdd(n) ==
    n + 1

\* open_stream up to the registration: is_closed (Err when closed, nothing
\* changes), next_stream_id.fetch_add(1), streams.insert(stream_id, data_tx).
OpenStream ==
    /\ pc["app"] = "idle"
    /\ is_client
    /\ ~closed
    /\ next_stream_id <= MaxStreams
    /\ app_sid' = next_stream_id
    /\ next_stream_id' = FetchAdd(next_stream_id)
    /\ streams' = streams \cup {next_stream_id}
    /\ pc' = [pc EXCEPT !["app"] = "open_syn"]
    /\ UNCHANGED << pad, codec, pool, auth, strm, rlog, data_ch, handled, closed_sids, is_client, padding, closed, settings_sent, pkt_counter,
                    send_padding, buffering, buffer, conn_holder, conn_waiters,
                    transport, inbound, frame_ch, cur, snap, opened, n_writes,
                    n_inbound, submitted, returned, pktlog, hb_seen >>

\* write_control_frame(Frame::new(CMD_SYN, stream_id)) up to the lock.
OpenSyn ==
    /\ pc["app"] = "open_syn"
    /\ WriteFrameCall("app", FrameNew(CMD_SYN, app_sid), "clone_pkt")
    /\ pc' = [pc EXCEPT !["app"] = "write_conn"]
    /\ UNCHANGED << pad, codec, pool, auth, strm, rlog, data_ch, handled, closed_sids, is_client, padding, closed, settings_sent, next_stream_id, streams,
                    pkt_counter, send_padding, buffering, buffer, transport, inbound,
                    frame_ch, snap, app_sid, opened, n_writes, n_inbound, returned,
                    pktlog, hb_seen >>

\* Arc::new(self.clone()): Session::clone copies the atomics one load at a
\* time, pkt_counter, then send_padding, then buffering.
ClonePktCounter ==
    /\ pc["app"] = "clone_pkt"
    /\ snap' = [snap EXCEPT !.pkt_counter = pkt_counter["s"]]
    /\ pc' = [pc EXCEPT !["app"] = "clone_sp"]
    /\ UNCHANGED << pad, codec, pool, auth, strm, rlog, data_ch, handled, closed_sids, is_client, padding, closed, settings_sent, next_stream_id, streams,
                    pkt_counter, send_padding, buffering, buffer, conn_holder,
                    conn_waiters, transport, inbound, frame_ch, cur, app_sid, opened,
                    n_writes, n_inbound, submitted, returned, pktlog, hb_seen >>

CloneSendPadding ==
    /\ pc["app"] = "clone_sp"
    /\ snap' = [snap EXCEPT !.send_padding = send_padding["s"]]
    /\ pc' = [pc EXCEPT !["app"] = "clone_buf"]
    /\ UNCHANGED << pad, codec, pool, auth, strm, rlog, data_ch, handled, closed_sids, is_client, padding, closed, settings_sent, next_stream_id, streams,
                    pkt_counter, send_padding, buffering, buffer, conn_holder,
                    conn_waiters, transport, inbound, frame_ch, cur, app_sid, opened,
                    n_writes, n_inbound, submitted, returned, pktlog, hb_seen >>

\* The last load of the clone, and tokio::spawn of the frame writer task
\* that owns the clone.
CloneBufferingAndSpawn ==
    /\ pc["app"] = "clone_buf"
    /\ LET w == WriterName(app_sid)
       IN  /\ pkt_counter' = [pkt_counter EXCEPT ![w] = snap.pkt_counter]
           /\ send_padding' = [send_padding EXCEPT ![w] = snap.send_padding]
           /\ buffering' = [buffering EXCEPT ![w] = buffering["s"]]
           /\ pc' = [pc EXCEPT !["app"] = "end_buffering", ![w] = "frame_recv"]
    /\ snap' = [pkt_counter |-> 0, send_padding |-> FALSE]
    /\ UNCHANGED << pad, codec, pool, auth, strm, rlog, data_ch, handled, closed_sids, is_client, padding, closed, settings_sent, next_stream_id, streams,
                    buffer, conn_holder, conn_waiters, transport, inbound, frame_ch, cur,
                    app_sid, opened, n_writes, n_inbound, submitted, returned, pktlog,
                    hb_seen >>

\* buffering.store(false) and Ok(stream).
EndBuffering ==
    /\ pc["app"] = "end_buffering"
    /\ buffering' = [buffering EXCEPT !["s"] = FALSE]
    /\ opened' = opened \cup {app_sid}
    /\ app_sid' = 0
    /\ pc' = [pc EXCEPT !["app"] = "idle"]
    /\ UNCHANGED << pad, codec, pool, auth, strm, rlog, data_ch, handled, closed_sids, is_client, padding, closed, settings_sent, next_stream_id, streams,
                    pkt_counter, send_padding, buffer, conn_holder, conn_waiters,
                    transport, inbound, frame_ch, cur, snap, n_writes, n_inbound,
                    submitted, returned, pktlog, hb_seen >>

(***************************************************************************)
(* Stream::poll_write and the frame writer task of a stream                *)
(***************************************************************************)
\* The payload of the n-th write on a stream.
Payload(n) ==
    << n >>

\* poll_write: BrokenPipe on a closed stream; else frame_tx.try_send(PSH),
\* where Closed (the writer task is gone) is BrokenPipe as well and Full
\* leaves the write pending and changes nothing.
StreamWrite(sid) ==
    /\ sid \in opened
    /\ ~strm[sid].dropped
    /\ n_writes[sid] < MaxWrites
    /\ Len(frame_ch[sid]) < FrameChannelCap
    /\ n_writes' = [n_writes EXCEPT ![sid] = @ + 1]
    /\ IF strm[sid].closed \/ pc[WriterName(sid)] = "panicked"
       THEN /\ rlog' = [rlog EXCEPT ![sid].writes = Append(@, "BrokenPipe")]
            /\ UNCHANGED frame_ch
       ELSE /\ rlog' = [rlog EXCEPT ![sid].writes = Append(@, "Ok")]
            /\ frame_ch' = [frame_ch EXCEPT ![sid] =
                                Append(@, FrameWithData(CMD_PSH, sid,
                                                        Payload(n_writes[sid] + 1)))]
    /\ UNCHANGED << pad, codec, pool, auth, strm, data_ch, handled, closed_sids,
                    is_client, padding, closed, settings_sent, next_stream_id,
                    streams, pkt_counter, send_padding, buffering, buffer,
                    conn_holder, conn_waiters, transport, inbound, pc, cur, snap,
                    app_sid, opened, n_inbound, submitted, returned, pktlog,
                    hb_seen >>

\* The sizes of the buffers the application reads into.
ReadSizes == {1, 2}

\* A faulty MarkClosed: the flag stays as it is.
MarkClosedNothing(sid) ==
    strm

\* mark_closed
MarkClosed(sid) ==
    [strm EXCEPT ![sid].closed = TRUE]

\* poll_read into a buffer of n bytes: EOF on a closed stream; else from the
\* partly read buffer; else the next item of the data channel, whose rest is
\* kept in read_buffer; else, when the sender is gone from Session.streams,
\* mark_closed and EOF.  With the sender alive and nothing queued the read
\* is pending and changes nothing.
StreamRead(sid, n) ==
    /\ sid \in opened
    /\ ~strm[sid].dropped
    /\ LET st == strm[sid]
       IN  IF st.closed
           THEN /\ rlog' = [rlog EXCEPT ![sid].eof = TRUE]
                /\ UNCHANGED << strm, data_ch >>
           ELSE IF st.read_buffer # << >>
           THEN LET remaining  == Len(st.read_buffer) - st.read_offset
                    to_copy    == Min(remaining, n)
                    new_offset == st.read_offset + to_copy
                IN  /\ rlog' = [rlog EXCEPT ![sid].got =
                                    @ \o SubSeq(st.read_buffer, st.read_offset + 1,
                                                new_offset)]
                    /\ strm' = IF new_offset >= Len(st.read_buffer)
                               THEN [strm EXCEPT ![sid].read_buffer = << >>,
                                                 ![sid].read_offset = 0]
                               ELSE [strm EXCEPT ![sid].read_offset = new_offset]
                    /\ UNCHANGED data_ch
           ELSE IF data_ch[sid] # << >>
           THEN LET data    == Head(data_ch[sid])
                    to_copy == Min(Len(data), n)
                IN  /\ data_ch' = [data_ch EXCEPT ![sid] = Tail(@)]
                    /\ rlog' = [rlog EXCEPT ![sid].got = @ \o SubSeq(data, 1, to_copy)]
                    /\ strm' = IF to_copy < Len(data)
                               THEN [strm EXCEPT ![sid].read_buffer = data,
                                                 ![sid].read_offset = to_copy]
                               ELSE strm
           ELSE /\ sid \notin streams
                /\ strm' = MarkClosed(sid)
                /\ rlog' = [rlog EXCEPT ![sid].eof = TRUE]
                /\ UNCHANGED data_ch
    /\ UNCHANGED << pad, codec, pool, auth, handled, closed_sids, is_client, padding,
                    closed, settings_sent, next_stream_id, streams, pkt_counter,
                    send_padding, buffering, buffer, conn_holder, conn_waiters,
                    transport, inbound, frame_ch, pc, cur, snap, app_sid, opened,
                    n_writes, n_inbound, submitted, returned, pktlog, hb_seen >>

MaxShutdowns == 2

\* frame_tx.try_send(Frame::new(CMD_FIN, id)) with the channel not full: the
\* frame is queued unless the writer task is gone.
TrySendFin(sid) ==
    IF pc[WriterName(sid)] = "panicked"
    THEN frame_ch
    ELSE [frame_ch EXCEPT ![sid] = Append(@, FrameNew(CMD_FIN, sid))]

\* poll_shutdown: Ok at once on a closed stream; else try_send(FIN) and
\* mark_closed, whether the frame was queued or the channel is closed; a
\* full channel leaves the call pending and changes nothing.
StreamShutdown(sid) ==
    /\ sid \in opened
    /\ ~strm[sid].dropped
    /\ rlog[sid].shutdowns < MaxShutdowns
    /\ rlog' = [rlog EXCEPT ![sid].shutdowns = @ + 1]
    /\ IF strm[sid].closed
       THEN UNCHANGED << strm, frame_ch >>
       ELSE /\ Len(frame_ch[sid]) < FrameChannelCap
            /\ frame_ch' = TrySendFin(sid)
            /\ strm' = MarkClosed(sid)
    /\ UNCHANGED << pad, codec, pool, auth, data_ch, handled, closed_sids, is_client,
                    padding, closed, settings_sent, next_stream_id, streams,
                    pkt_counter, send_padding, buffering, buffer, conn_holder,
                    conn_waiters, transport, inbound, pc, cur, snap, app_sid, opened,
                    n_writes, n_inbound, submitted, returned, pktlog, hb_seen >>

\* Drop for Stream: on a stream that is not closed, try_send(FIN), whose
\* result is ignored, and mark_closed; the Stream value is gone afterwards.
StreamDrop(sid) ==
    /\ sid \in opened
    /\ ~strm[sid].dropped
    /\ IF strm[sid].closed
       THEN /\ strm' = [strm EXCEPT ![sid].dropped = TRUE]
            /\ UNCHANGED frame_ch
       ELSE /\ frame_ch' = IF Len(frame_ch[sid]) < FrameChannelCap
                           THEN TrySendFin(sid)
                           ELSE frame_ch
            /\ strm' = [MarkClosed(sid) EXCEPT ![sid].dropped = TRUE]
    /\ UNCHANGED << pad, codec, pool, auth, rlog, data_ch, handled, closed_sids,
                    is_client, padding, closed, settings_sent, next_stream_id,
                    streams, pkt_counter, send_padding, buffering, buffer,
                    conn_holder, conn_waiters, transport, inbound, pc, cur, snap,
                    app_sid, opened, n_writes, n_inbound, submitted, returned,
                    pktlog, hb_seen >>

\* The task spawned in open_stream: frame_rx.recv(), then
\* session_clone.write_frame(frame), up to the lock.
FrameRecv(sid) ==
    /\ pc[WriterName(sid)] = "frame_recv"
    /\ frame_ch[sid] # << >>
    /\ frame_ch' = [frame_ch EXCEPT ![sid] = Tail(@)]
    /\ WriteFrameCall(WriterName(sid), Head(frame_ch[sid]), "frame_recv")
    /\ pc' = [pc EXCEPT ![WriterName(sid)] = "write_conn"]
    /\ UNCHANGED << pad, codec, pool, auth, strm, rlog, data_ch, handled, closed_sids, is_client, padding, closed, settings_sent, next_stream_id, streams,
                    pkt_counter, send_padding, buffering, buffer, transport, inbound,
                    snap, app_sid, opened, n_writes, n_inbound, returned, pktlog,
                    hb_seen >>

(***************************************************************************)
(* The peer                                                                *)
(***************************************************************************)
PeerSend(f) ==
    /\ n_inbound < MaxInbound
    /\ inbound' = Append(inbound, f)
    /\ n_inbound' = n_inbound + 1
    /\ UNCHANGED << pad, codec, pool, auth, strm, rlog, data_ch, handled, closed_sids, is_client, padding, closed, settings_sent, next_stream_id, streams,
                    pkt_counter, send_padding, buffering, buffer, conn_holder,
                    conn_waiters, transport, frame_ch, pc, cur, snap, app_sid, opened,
                    n_writes, submitted, returned, pktlog, hb_seen >>

(***************************************************************************)
(* Session::close, called by Client::cleanup and Client::close             *)
(***************************************************************************)
\* closed.swap(true); a second call returns at once and changes nothing.  The
\* walk over the streams that follows does nothing.
Close ==
    /\ ~closed
    /\ closed' = TRUE
    /\ UNCHANGED << pad, codec, pool, auth, strm, rlog, data_ch, handled, closed_sids, is_client, padding, settings_sent, next_stream_id, streams,
                    pkt_counter, send_padding, buffering, buffer, conn_holder,
                    conn_waiters, transport, inbound, frame_ch, pc, cur, snap, app_sid,
                    opened, n_writes, n_inbound, submitted, returned, pktlog, hb_seen >>

(***************************************************************************)
(* The specifications                                                      *)
(***************************************************************************)
RunStep ==
    \/ RunStart
    \/ StoreBuffering
    \/ RecvLock
    \/ RecvLocked
    \/ RecvCheckClosed
    \/ RecvHeartRequest
    \/ RecvIgnored
    \/ WriteConn("run")
    \/ WriteAll("run")

AppStep ==
    \/ OpenSyn
    \/ ClonePktCounter
    \/ CloneSendPadding
    \/ CloneBufferingAndSpawn
    \/ EndBuffering
    \/ WriteConn("app")
    \/ WriteAll("app")

WriterStep(sid) ==
    \/ FrameRecv(sid)
    \/ WriteConn(WriterName(sid))
    \/ WriteAll(WriterName(sid))

Next ==
    \/ RunStep
    \/ AppStep
    \/ \E sid \in Sids : WriterStep(sid)
    \/ OpenStream
    \/ \E sid \in Sids : StreamWrite(sid)
    \/ \E f \in InboundFrames : PeerSend(f)
    \/ Close

Spec ==
    Init /\ [][Next]_vars

\* Every task that can run is run: the tokio scheduler polls a spawned task
\* that is ready; the calls of the application and the peer's frames are not
\* forced.
FairSpec ==
    /\ Spec
    /\ WF_vars(RunStep)
    /\ WF_vars(AppStep)
    /\ \A sid \in Sids : WF_vars(WriterStep(sid))

(***************************************************************************)
(* handle_frame for the stream and settings commands, and                  *)
(* Session::close_stream                                                   *)
(***************************************************************************)
MaxPumpInbound == 2

\* A digest that no scheme body of the model has.
OtherMd5 ==
    << 48, 48 >>

\* The text "v=<v>\npadding-md5=<md5>" of a client's SETTINGS frame.
SettingsBody(v, md5) ==
    KeyV \o << 61 >> \o DecimalText(v) \o << 10 >> \o KeyPaddingMd5 \o << 61 >> \o md5

\* The text "padding-md5=<md5>": a SETTINGS body without a version.
SettingsBodyNoVersion(md5) ==
    KeyPaddingMd5 \o << 61 >> \o md5

\* "stop=1\n0=9-9": a scheme other than the session's.
NewSchemeBody ==
    << 115, 116, 111, 112, 61, 49, 10, 48, 61, 57, 45, 57 >>

\* "stop=x\n0=9-9": no scheme, its stop is not a number.
BadSchemeBody ==
    << 115, 116, 111, 112, 61, 120, 10, 48, 61, 57, 45, 57 >>

\* The frames the peer can send to the pump.
PumpFrames ==
    { FrameNew(CMD_SYN, 1),
      FrameNew(CMD_FIN, 1),
      FrameWithData(CMD_PSH, 1, << 7 >>),
      FrameNew(CMD_HEART_REQUEST, 0),
      FrameWithData(CMD_WASTE, 0, << 0 >>),
      FrameWithData(CMD_SETTINGS, 0, SettingsBody(2, Md5(ModelSchemeBody))),
      FrameWithData(CMD_SETTINGS, 0, SettingsBody(2, OtherMd5)),
      FrameWithData(CMD_SETTINGS, 0, SettingsBodyNoVersion(Md5(ModelSchemeBody))),
      FrameWithData(CMD_UPDATE_PADDING_SCHEME, 0, ModelSchemeBody),
      FrameWithData(CMD_UPDATE_PADDING_SCHEME, 0, NewSchemeBody),
      FrameWithData(CMD_UPDATE_PADDING_SCHEME, 0, BadSchemeBody) }

PeerSendPump(f) ==
    /\ n_inbound < MaxPumpInbound
    /\ inbound' = Append(inbound, f)
    /\ n_inbound' = n_inbound + 1
    /\ UNCHANGED << pad, codec, pool, auth, strm, rlog, data_ch, handled, closed_sids, is_client, padding,
                    closed, settings_sent, next_stream_id, streams, pkt_counter,
                    send_padding, buffering, buffer, conn_holder, conn_waiters,
                    transport, frame_ch, pc, cur, snap, app_sid, opened, n_writes,
                    submitted, returned, pktlog, hb_seen >>

\* A faulty TrySendData: a full channel gives up its oldest item.
TrySendDataEvicting(q, data) ==
    IF Len(q) < FrameChannelCap THEN Append(q, data) ELSE Append(Tail(q), data)

\* stream_tx.try_send(data) on a data channel whose receiver is alive: the
\* item is queued unless the channel holds its 100 items, in which case
\* the Err is logged and the item is gone.
TrySendData(q, data) ==
    IF Len(q) < FrameChannelCap THEN Append(q, data) ELSE q

\* handle_frame for CMD_PSH: stream_tx.try_send(data) on the data channel
\* of a registered stream; an empty payload, an unknown sid, a full channel
\* and a channel whose Stream is gone only log.
RecvPsh ==
    /\ pc["run"] = "recv_read"
    /\ inbound # << >>
    /\ Head(inbound).cmd = CMD_PSH
    /\ inbound' = Tail(inbound)
    /\ handled' = Append(handled, Head(inbound))
    /\ LET sid  == Head(inbound).sid
           data == Head(inbound).data
       IN  IF /\ data # << >>
              /\ sid \in streams
              /\ ~strm[sid].dropped
           THEN /\ data_ch' = [data_ch EXCEPT ![sid] = TrySendData(@, data)]
                /\ rlog' = IF Len(data_ch[sid]) < FrameChannelCap
                            THEN [rlog EXCEPT ![sid].delivered = @ \o data]
                            ELSE rlog
           ELSE UNCHANGED << data_ch, rlog >>
    /\ pc' = [pc EXCEPT !["run"] = "recv_loop"]
    /\ UNCHANGED << pad, codec, pool, auth, strm, closed_sids, is_client, padding,
                    closed, settings_sent, next_stream_id, streams, pkt_counter,
                    send_padding, buffering, buffer, conn_holder, conn_waiters,
                    transport, frame_ch, cur, snap, app_sid, opened, n_writes,
                    n_inbound, submitted, returned, pktlog, hb_seen >>

\* format!("Stream {} already exists", sid)
StreamExistsText(sid) ==
    << 83, 116, 114, 101, 97, 109, 32 >> \o DecimalText(sid)
        \o << 32, 97, 108, 114, 101, 97, 100, 121, 32, 101, 120, 105, 115, 116, 115 >>

\* handle_frame for CMD_SYN.  Server: for a registered sid the SYNACK with
\* the error text; else Stream::new into the local `_stream`,
\* streams.insert(sid, data_tx) and the empty SYNACK.  Either SYNACK goes
\* through write_control_frame, which asks for `conn` while the guard of
\* recv_loop is alive.  Client: a log line.
RecvSyn ==
    /\ pc["run"] = "recv_read"
    /\ inbound # << >>
    /\ Head(inbound).cmd = CMD_SYN
    /\ inbound' = Tail(inbound)
    /\ handled' = Append(handled, Head(inbound))
    /\ LET sid == Head(inbound).sid
       IN  IF ~is_client
           THEN /\ IF sid \in streams
                   THEN /\ WriteFrameCall("run", FrameWithData(CMD_SYNACK, sid,
                                                               StreamExistsText(sid)),
                                          "recv_loop")
                        /\ UNCHANGED streams
                   ELSE /\ streams' = streams \cup {sid}
                        /\ WriteFrameCall("run", FrameNew(CMD_SYNACK, sid), "recv_loop")
                /\ pc' = [pc EXCEPT !["run"] = "write_conn"]
           ELSE /\ pc' = [pc EXCEPT !["run"] = "recv_loop"]
                /\ UNCHANGED << streams, cur, submitted, conn_holder, conn_waiters >>
    /\ UNCHANGED << pad, codec, pool, auth, strm, rlog, data_ch, closed_sids, is_client, padding, closed,
                    settings_sent, next_stream_id, pkt_counter, send_padding,
                    buffering, buffer, transport, frame_ch, snap, app_sid, opened,
                    n_writes, n_inbound, returned, pktlog, hb_seen >>

\* A faulty StreamsRemove: the entry stays.
StreamsRemoveNothing(map, sid) ==
    map

\* A faulty StreamsRemove: every entry goes.
StreamsClear(map, sid) ==
    {}

\* streams.remove(&sid) on the map of the registered streams.
StreamsRemove(map, sid) ==
    map \ {sid}

\* handle_frame for CMD_FIN: streams.remove(&sid).
RecvFin ==
    /\ pc["run"] = "recv_read"
    /\ inbound # << >>
    /\ Head(inbound).cmd = CMD_FIN
    /\ inbound' = Tail(inbound)
    /\ handled' = Append(handled, Head(inbound))
    /\ streams' = StreamsRemove(streams, Head(inbound).sid)
    /\ closed_sids' = closed_sids \cup (streams \cap {Head(inbound).sid})
    /\ pc' = [pc EXCEPT !["run"] = "recv_loop"]
    /\ UNCHANGED << pad, codec, pool, auth, strm, rlog, data_ch, is_client, padding, closed, settings_sent,
                    next_stream_id, pkt_counter, send_padding, buffering, buffer,
                    conn_holder, conn_waiters, transport, frame_ch, cur, snap,
                    app_sid, opened, n_writes, n_inbound, submitted, returned,
                    pktlog, hb_seen >>

\* A faulty Md5Differs: every digest counts as another one.
Md5DiffersAlways(theirs, ours) ==
    TRUE

\* `padding_md5 != self.padding.md5()` in handle_client_settings.
Md5Differs(theirs, ours) ==
    theirs # ours

\* handle_client_settings, the check of the client's version: the value of
\* "v" parses and is at least 2.
WantsServerSettings(settings) ==
    /\ KeyV \in DOMAIN settings
    /\ ParseU32(settings[KeyV]).ok
    /\ ParseU32(settings[KeyV]).value >= 2

\* handle_frame for CMD_SETTINGS.  Server, payload not empty:
\* handle_client_settings up to its first write: UPDATE_PADDING_SCHEME with
\* the raw scheme when the client's padding-md5 is another one.  Client: a
\* log line.
RecvSettings ==
    /\ pc["run"] = "recv_read"
    /\ inbound # << >>
    /\ Head(inbound).cmd = CMD_SETTINGS
    /\ inbound' = Tail(inbound)
    /\ handled' = Append(handled, Head(inbound))
    /\ \E settings \in {StringMapFromBytes(Head(inbound).data)} :
       LET after == IF WantsServerSettings(settings)
                    THEN "server_settings"
                    ELSE "recv_loop"
       IN  IF ~is_client /\ Head(inbound).data # << >>
           THEN IF /\ KeyPaddingMd5 \in DOMAIN settings
                   /\ Md5Differs(settings[KeyPaddingMd5], padding.md5)
                THEN /\ WriteFrameCall("run",
                                       FrameWithData(CMD_UPDATE_PADDING_SCHEME, 0,
                                                     padding.raw),
                                       after)
                     /\ pc' = [pc EXCEPT !["run"] = "write_conn"]
                ELSE /\ pc' = [pc EXCEPT !["run"] = after]
                     /\ UNCHANGED << cur, submitted, conn_holder, conn_waiters >>
           ELSE /\ pc' = [pc EXCEPT !["run"] = "recv_loop"]
                /\ UNCHANGED << cur, submitted, conn_holder, conn_waiters >>
    /\ UNCHANGED << pad, codec, pool, auth, strm, rlog, data_ch, closed_sids, is_client, padding, closed,
                    settings_sent, next_stream_id, streams, pkt_counter,
                    send_padding, buffering, buffer, transport, frame_ch, snap,
                    app_sid, opened, n_writes, n_inbound, returned, pktlog,
                    hb_seen >>

\* StringMap::to_bytes of the one-entry map {"v": "2"}.
ServerSettingsBody ==
    KeyV \o << 61 >> \o DecimalText(2)

\* handle_client_settings for a version of 2 or more: the SERVER_SETTINGS
\* frame, up to the lock of its write_control_frame.
SendServerSettings ==
    /\ pc["run"] = "server_settings"
    /\ WriteFrameCall("run", FrameWithData(CMD_SERVER_SETTINGS, 0, ServerSettingsBody),
                      "recv_loop")
    /\ pc' = [pc EXCEPT !["run"] = "write_conn"]
    /\ UNCHANGED << pad, codec, pool, auth, strm, rlog, data_ch, handled, closed_sids, is_client, padding,
                    closed, settings_sent, next_stream_id, streams, pkt_counter,
                    send_padding, buffering, buffer, transport, inbound, frame_ch,
                    snap, app_sid, opened, n_writes, n_inbound, returned, pktlog,
                    hb_seen >>

\* format!("Padding scheme updated to: {}", new_md5)
UpdateAckText(md5) ==
    << 80, 97, 100, 100, 105, 110, 103, 32, 115, 99, 104, 101, 109, 101, 32,
       117, 112, 100, 97, 116, 101, 100, 32, 116, 111, 58, 32 >> \o md5

\* handle_frame for CMD_UPDATE_PADDING_SCHEME.  Client, payload not empty:
\* handle_update_padding_scheme.  A scheme with another digest is logged and
\* acknowledged with a frame, self.padding is not assigned; the same scheme
\* is logged; a payload that is no scheme is an Err, which handle_frame and
\* recv_loop pass on with `?`, so that the loop ends and its guard is
\* dropped.  Server: a log line.
RecvUpdatePaddingScheme ==
    /\ pc["run"] = "recv_read"
    /\ inbound # << >>
    /\ Head(inbound).cmd = CMD_UPDATE_PADDING_SCHEME
    /\ inbound' = Tail(inbound)
    /\ handled' = Append(handled, Head(inbound))
    /\ \E new_padding \in {PaddingFactoryNew(Head(inbound).data)} :
           IF is_client /\ Head(inbound).data # << >>
           THEN IF new_padding.ok
                THEN IF new_padding.md5 # padding.md5
                     THEN /\ WriteFrameCall("run",
                                            FrameWithData(CMD_UPDATE_PADDING_SCHEME, 0,
                                                          UpdateAckText(new_padding.md5)),
                                            "recv_loop")
                          /\ pc' = [pc EXCEPT !["run"] = "write_conn"]
                     ELSE /\ pc' = [pc EXCEPT !["run"] = "recv_loop"]
                          /\ UNCHANGED << cur, submitted, conn_holder, conn_waiters >>
                ELSE /\ LockRelease
                     /\ pc' = [pc EXCEPT !["run"] = "run_done"]
                     /\ UNCHANGED << cur, submitted >>
           ELSE /\ pc' = [pc EXCEPT !["run"] = "recv_loop"]
                /\ UNCHANGED << cur, submitted, conn_holder, conn_waiters >>
    /\ UNCHANGED << pad, codec, pool, auth, strm, rlog, data_ch, closed_sids, is_client, padding, closed,
                    settings_sent, next_stream_id, streams, pkt_counter,
                    send_padding, buffering, buffer, transport, frame_ch, snap,
                    app_sid, opened, n_writes, n_inbound, returned, pktlog,
                    hb_seen >>

\* Session::close_stream(stream_id), called for a registered stream:
\* streams.remove(&stream_id), then the FIN frame up to the lock of its
\* write_control_frame.
CloseStream(sid) ==
    /\ pc["app"] = "idle"
    /\ sid \in streams
    /\ streams' = StreamsRemove(streams, sid)
    /\ closed_sids' = closed_sids \cup {sid}
    /\ WriteFrameCall("app", FrameNew(CMD_FIN, sid), "idle")
    /\ pc' = [pc EXCEPT !["app"] = "write_conn"]
    /\ UNCHANGED << pad, codec, pool, auth, strm, rlog, data_ch, handled, is_client, padding, closed,
                    settings_sent, next_stream_id, pkt_counter, send_padding,
                    buffering, buffer, transport, inbound, frame_ch, snap, app_sid,
                    opened, n_writes, n_inbound, returned, pktlog, hb_seen >>

PumpStep ==
    \/ RecvPsh
    \/ RecvSyn
    \/ RecvFin
    \/ RecvSettings
    \/ SendServerSettings
    \/ RecvUpdatePaddingScheme

NextPump ==
    \/ RunStep
    \/ PumpStep
    \/ AppStep
    \/ OpenStream
    \/ \E sid \in Sids : CloseStream(sid)
    \/ \E f \in PumpFrames : PeerSendPump(f)

SpecPump ==
    Init /\ [][NextPump]_vars

\* Session::run and the caller of the session are tasks the scheduler runs
\* whenever they can go on.
FairSpecPump ==
    /\ SpecPump
    /\ WF_vars(RunStep \/ PumpStep)
    /\ WF_vars(AppStep)

(***************************************************************************)
(* The streams of a session: reads, writes, shutdown and drop of a Stream  *)
(* next to the pump handling PSH, FIN and ALERT                            *)
(***************************************************************************)
MaxStreamInbound == 2

\* The frames the peer can send to a session with streams.
StreamFrames ==
    { FrameWithData(CMD_PSH, 1, << 1, 2 >>),
      FrameWithData(CMD_PSH, 2, << 9 >>),
      FrameNew(CMD_FIN, 1),
      FrameNew(CMD_ALERT, 0),
      FrameWithData(CMD_ALERT, 0, << 33 >>) }

PeerSendStream(f) ==
    /\ n_inbound < MaxStreamInbound
    /\ inbound' = Append(inbound, f)
    /\ n_inbound' = n_inbound + 1
    /\ UNCHANGED << pad, codec, pool, auth, strm, rlog, data_ch, handled,
                    closed_sids, is_client, padding, closed, settings_sent,
                    next_stream_id, streams, pkt_counter, send_padding, buffering,
                    buffer, conn_holder, conn_waiters, transport, frame_ch, pc, cur,
                    snap, app_sid, opened, n_writes, submitted, returned, pktlog,
                    hb_seen >>

\* handle_frame for CMD_ALERT: with a payload, the text is logged and an Err
\* returned, which ends recv_loop (its guard of `conn` is dropped) and
\* Session::run; an empty payload is logged and the loop goes on.
RecvAlert ==
    /\ pc["run"] = "recv_read"
    /\ inbound # << >>
    /\ Head(inbound).cmd = CMD_ALERT
    /\ inbound' = Tail(inbound)
    /\ handled' = Append(handled, Head(inbound))
    /\ IF Head(inbound).data # << >>
       THEN /\ LockRelease
            /\ pc' = [pc EXCEPT !["run"] = "run_done"]
       ELSE /\ pc' = [pc EXCEPT !["run"] = "recv_loop"]
            /\ UNCHANGED << conn_holder, conn_waiters >>
    /\ UNCHANGED << pad, codec, pool, auth, strm, rlog, data_ch, closed_sids,
                    is_client, padding, closed, settings_sent, next_stream_id,
                    streams, pkt_counter, send_padding, buffering, buffer, transport,
                    frame_ch, cur, snap, app_sid, opened, n_writes, n_inbound,
                    submitted, returned, pktlog, hb_seen >>

\* Session::run with a peer that sends PSH, FIN and ALERT frames.
StreamRunStep ==
    \/ RunStart
    \/ StoreBuffering
    \/ RecvLock
    \/ RecvLocked
    \/ RecvCheckClosed
    \/ RecvPsh
    \/ RecvFin
    \/ RecvAlert
    \/ WriteConn("run")
    \/ WriteAll("run")

\* The application opens its first stream only.
OpenFirstStream ==
    /\ next_stream_id = 1
    /\ OpenStream

\* One stream: the application reads, writes, shuts down and drops stream 1,
\* and may close the session; the peer sends StreamFrames.
NextStream ==
    \/ StreamRunStep
    \/ AppStep
    \/ WriterStep(1)
    \/ OpenFirstStream
    \/ StreamWrite(1)
    \/ \E n \in ReadSizes : StreamRead(1, n)
    \/ StreamShutdown(1)
    \/ StreamDrop(1)
    \/ \E f \in StreamFrames : PeerSendStream(f)
    \/ Close

SpecStream ==
    Init /\ [][NextStream]_vars

(***************************************************************************)
(* Two streams of one session: stream 1 is closed, stream 2 is used        *)
(***************************************************************************)
\* The frames the peer sends to a session with two streams.
SiblingFrames ==
    { FrameWithData(CMD_PSH, 2, << 8, 9 >>),
      FrameNew(CMD_FIN, 1) }

\* Session::run with a peer that sends PSH and FIN frames.
SiblingRunStep ==
    \/ RunStart
    \/ StoreBuffering
    \/ RecvLock
    \/ RecvLocked
    \/ RecvCheckClosed
    \/ RecvPsh
    \/ RecvFin
    \/ WriteConn("run")
    \/ WriteAll("run")

\* The application shuts down and drops stream 1 and reads and writes
\* stream 2; the peer sends SiblingFrames.
NextSiblings ==
    \/ SiblingRunStep
    \/ AppStep
    \/ \E sid \in Sids : WriterStep(sid)
    \/ OpenStream
    \/ StreamWrite(2)
    \/ \E n \in ReadSizes : StreamRead(2, n)
    \/ StreamShutdown(1)
    \/ StreamDrop(1)
    \/ \E f \in SiblingFrames : PeerSendStream(f)

SpecSiblings ==
    Init /\ [][NextSiblings]_vars

(***************************************************************************)
(* A peer that sends more PSH frames than a data channel holds             *)
(***************************************************************************)
MaxFloodInbound == 102

\* The payload of the k-th frame of the peer.
FloodPayload(k) ==
    << k % 256 >>

\* The peer sends one PSH after the other, each when the pump has read the
\* one before: the first FrameChannelCap of them for stream 1, the later
\* ones for any stream.
PeerSendFlood ==
    /\ n_inbound < MaxFloodInbound
    /\ inbound = << >>
    /\ \E sid \in (IF n_inbound < FrameChannelCap THEN {1} ELSE Sids) :
           inbound' = Append(inbound, FrameWithData(CMD_PSH, sid,
                                                    FloodPayload(n_inbound + 1)))
    /\ n_inbound' = n_inbound + 1
    /\ UNCHANGED << pad, codec, pool, auth, strm, rlog, data_ch, handled,
                    closed_sids, is_client, padding, closed, settings_sent,
                    next_stream_id, streams, pkt_counter, send_padding, buffering,
                    buffer, conn_holder, conn_waiters, transport, frame_ch, pc, cur,
                    snap, app_sid, opened, n_writes, submitted, returned, pktlog,
                    hb_seen >>

\* Session::run with a peer that sends PSH frames only.
FloodRunStep ==
    \/ RunStart
    \/ StoreBuffering
    \/ RecvLock
    \/ RecvLocked
    \/ RecvCheckClosed
    \/ RecvPsh
    \/ WriteConn("run")
    \/ WriteAll("run")

\* The application opens its streams and reads stream 2 only, so that the
\* data channel of stream 1 fills up.
NextFlood ==
    \/ FloodRunStep
    \/ AppStep
    \/ OpenStream
    \/ \E n \in ReadSizes : StreamRead(2, n)
    \/ PeerSendFlood

SpecFlood ==
    Init /\ [][NextFlood]_vars

(***************************************************************************)
(* write_with_padding on its own: every plan a scheme line can yield,      *)
(* applied to every encoded frame of the bounded set                       *)
(***************************************************************************)
MaxPadSize == 20
MaxPadPayload == 6
MaxPadEntries == 2

PadEntries ==
    {CheckEntry}
        \cup { RangeEntry(n, n) : n \in 1 .. MaxPadSize }
        \cup { RangeEntry(0, 5), RangeEntry(MaxPadSize, MaxPadSize - 2) }

RECURSIVE SeqsUpTo(_, _)
SeqsUpTo(S, n) ==
    IF n = 0
    THEN { << >> }
    ELSE LET shorter == SeqsUpTo(S, n - 1)
         IN  shorter \cup { Append(q, x) : q \in shorter, x \in S }

PadLines ==
    SeqsUpTo(PadEntries, MaxPadEntries)

\* The payload bytes 1, 2, ..., n.
Iota(n) ==
    [i \in 1 .. n |-> i]

PadFrames ==
    { FrameWithData(CMD_PSH, 1, Iota(n)) : n \in 0 .. MaxPadPayload }

\* The scheme whose only line, for packet 0, is `line`; packet 1 is below
\* stop and has no line.
OneLineScheme(line) ==
    [stop |-> 2, lines |-> (0 :> line)]

InitPad ==
    /\ is_client = FALSE
    /\ SessionInit
    /\ pad \in { [PadOff EXCEPT !.pc = "plan", !.pkt = k, !.line = l, !.data = ToBytes(f)] :
                    k \in {0, 1}, l \in PadLines, f \in PadFrames }
    /\ codec = CodecOff
    /\ pool = PoolOff
    /\ auth = AuthOff

SessionVars ==
    << is_client, padding, closed, settings_sent, next_stream_id, streams,
       pkt_counter, send_padding, buffering, buffer, conn_holder, conn_waiters,
       transport, inbound, frame_ch, pc, cur, snap, app_sid, opened, n_writes,
       n_inbound, submitted, returned, pktlog, hb_seen, data_ch, handled,
       closed_sids, strm, rlog >>

\* self.padding.generate_record_payload_sizes(pkt)
PadPlan ==
    /\ pad.pc = "plan"
    /\ \E plan \in GenerateRecordPayloadSizes(OneLineScheme(pad.line), pad.pkt) :
           pad' = [pad EXCEPT !.pc = "walk", !.plan = plan]
    /\ UNCHANGED << SessionVars, codec, pool, auth >>

\* The loop over the plan and the write of what remains.
PadWalk ==
    /\ pad.pc = "walk"
    /\ pad' = [pad EXCEPT !.pc = "done", !.out = WalkPlan(pad.plan, pad.data)]
    /\ UNCHANGED << SessionVars, codec, pool, auth >>

NextPad ==
    \/ PadPlan
    \/ PadWalk

SpecPad ==
    InitPad /\ [][NextPad]_vars

(***************************************************************************)
(* The Client's pool of idle sessions on its own (client.rs)               *)
(***************************************************************************)
MaxPoolSessions == 4
MaxMinIdle == 2

\* The sessions the callers of the Client hold, by number.
PoolSessions == 1 .. MaxPoolSessions

\* Client::new: an empty idle_sessions, min_idle_sessions as given.
InitPool ==
    /\ is_client = TRUE
    /\ SessionInit
    /\ pad = PadOff
    /\ codec = CodecOff
    /\ auth = AuthOff
    /\ pool \in { [PoolOff EXCEPT !.pc = "run", !.min_idle_sessions = m] :
                     m \in 0 .. MaxMinIdle }

\* A faulty PopFrontRest: the session at the tail is taken out.
PopBackRest(q) ==
    SubSeq(q, 1, Len(q) - 1)

\* What idle_sessions.pop_front() leaves in the deque.
PopFrontRest(q) ==
    Tail(q)

\* A faulty Truncate: nothing is cut off.
TruncateNothing(q, len) ==
    q

\* idle_sessions.truncate(len): the first len sessions are kept.
Truncate(q, len) ==
    SubSeq(q, 1, Min(len, Len(q)))

\* The record of the last call: `op` on the Client value h with `arg`.
Called(op, h, arg) ==
    [pool EXCEPT !.op = op, !.handle = h, !.arg = arg, !.used = 0,
                 !.dialled = FALSE, !.result = "none", !.reaped = {}]

\* self.closed of the Client value h.
ClosedFlag(h) ==
    CASE h = "main"  -> pool.closed
      [] h = "clone" -> pool.clone_closed
      [] OTHER       -> pool.task_closed

\* get_idle_session: idle_sessions.pop_front().
GetIdleSession ==
    /\ pool.pc = "run"
    /\ pool' = IF pool.idle = << >>
               THEN [pool EXCEPT !.got = 0, !.op = "get", !.arg = 0]
               ELSE [pool EXCEPT !.got = Head(pool.idle),
                                 !.idle = PopFrontRest(pool.idle),
                                 !.idle_for = PopFrontRest(pool.idle_for),
                                 !.op = "get", !.arg = 0]
    /\ UNCHANGED << SessionVars, pad, codec, auth >>

\* return_to_idle(session) on the Client value h, for a session that is not
\* in the pool: nothing when h is closed; else push_back, and
\* truncate(min_idle_sessions) when the pool is longer than twice
\* min_idle_sessions.
ReturnToIdleOn(h, session) ==
    /\ pool.pc = "run"
    /\ \A i \in DOMAIN pool.idle : pool.idle[i] # session
    /\ LET pushed     == Append(pool.idle, session)
           pushed_for == Append(pool.idle_for, 0)
           trim       == Len(pushed) > pool.min_idle_sessions * 2
       IN  pool' = IF ClosedFlag(h)
                   THEN Called("return", h, session)
                   ELSE [Called("return", h, session)
                             EXCEPT !.idle = IF trim
                                               THEN Truncate(pushed, pool.min_idle_sessions)
                                               ELSE pushed,
                                    !.idle_for = IF trim
                                                  THEN Truncate(pushed_for,
                                                                pool.min_idle_sessions)
                                                  ELSE pushed_for]
    /\ UNCHANGED << SessionVars, pad, codec, auth >>

ReturnToIdle(session) ==
    ReturnToIdleOn("main", session)

\* Client::close on the Client value h: closed.swap(true) on the flag of h,
\* then idle_sessions.drain(..) with session.close() on each; a second call
\* returns at once.
ClientCloseOn(h) ==
    /\ pool.pc = "run"
    /\ ~ClosedFlag(h)
    /\ pool' = [(IF h = "main"
                 THEN [Called("close", h, 0) EXCEPT !.closed = TRUE]
                 ELSE [Called("close", h, 0) EXCEPT !.clone_closed = TRUE])
                   EXCEPT !.idle = << >>, !.idle_for = << >>,
                          !.ended = @ \cup { pool.idle[i] : i \in DOMAIN pool.idle }]
    /\ UNCHANGED << SessionVars, pad, codec, auth >>

ClientClose ==
    ClientCloseOn("main")

NextPool ==
    \/ GetIdleSession
    \/ \E session \in PoolSessions : ReturnToIdle(session)
    \/ ClientClose

SpecPool ==
    InitPool /\ [][NextPool]_vars

(***************************************************************************)
(* The Client with create_stream, its clones and the cleanup task          *)
(***************************************************************************)
MaxDials == 2
MaxIdleFor == 2

\* idle_timeout, in the units of idle_for.
IdleTimeout == 2

\* The Client values calls are made on: the one from Client::new and a
\* clone of it.
ClientHandles == {"main", "clone"}

\* Time passes: every idle session has been idle for longer.
TimePasses ==
    /\ pool.pc = "run"
    /\ \E i \in DOMAIN pool.idle_for : pool.idle_for[i] < MaxIdleFor
    /\ pool' = [Called("tick", "none", 0)
                   EXCEPT !.idle_for = [i \in DOMAIN pool.idle_for |->
                                            Min(pool.idle_for[i] + 1, MaxIdleFor)]]
    /\ UNCHANGED << SessionVars, pad, codec, auth >>

\* Client::clone: a new AtomicBool with the value `closed` has now.
ClientClone ==
    /\ pool.pc = "run"
    /\ ~pool.clone_made
    /\ pool' = [Called("clone", "main", 0)
                   EXCEPT !.clone_made = TRUE, !.clone_closed = pool.closed]
    /\ UNCHANGED << SessionVars, pad, codec, auth >>

\* Session::close on a session the Client dialled, called by whoever holds
\* it.
SessionCloses(session) ==
    /\ pool.pc = "run"
    /\ session \in 1 .. pool.dials
    /\ session \notin pool.ended
    /\ pool' = [Called("session_close", "none", session)
                   EXCEPT !.ended = @ \cup {session}]
    /\ UNCHANGED << SessionVars, pad, codec, auth >>

\* Session::run of a dialled session returns an error, which the task
\* spawned in create_session logs.
SessionFails(session) ==
    /\ pool.pc = "run"
    /\ session \in 1 .. pool.dials
    /\ session \notin pool.failed
    /\ pool' = [Called("session_fail", "none", session)
                   EXCEPT !.failed = @ \cup {session}]
    /\ UNCHANGED << SessionVars, pad, codec, auth >>

\* What session.open_stream() returns: Err(BrokenPipe) on a closed session;
\* on a session whose pump has ended the SYN is written or the write fails;
\* else Ok.
OpenStreamResults(session) ==
    IF session \in pool.ended THEN {"BrokenPipe"}
    ELSE IF session \in pool.failed THEN {"Ok", "Err"}
    ELSE {"Ok"}

\* create_stream on the Client value h: Err(BrokenPipe) when h is closed;
\* else open_stream on the session get_idle_session pops; else, with an
\* empty pool, create_session (dial_out, Session::new_client, spawn of run)
\* and open_stream on the new session, or the Err of dial_out.  The session
\* is a local of create_stream and is dropped with it: it is in no pool
\* afterwards.
CreateStream(h) ==
    /\ pool.pc = "run"
    /\ IF ClosedFlag(h)
       THEN pool' = [Called("create", h, 0) EXCEPT !.result = "BrokenPipe"]
       ELSE IF pool.idle # << >>
       THEN \E r \in OpenStreamResults(Head(pool.idle)) :
                pool' = [Called("create", h, 0)
                            EXCEPT !.used = Head(pool.idle),
                                   !.served = IF r = "Ok"
                                              THEN @ \cup {Head(pool.idle)}
                                              ELSE @,
                                   !.idle = PopFrontRest(pool.idle),
                                   !.idle_for = PopFrontRest(pool.idle_for),
                                   !.result = r]
       ELSE /\ pool.dials < MaxDials
            /\ \/ pool' = [Called("create", h, 0)
                               EXCEPT !.used = pool.dials + 1,
                                      !.served = @ \cup {pool.dials + 1},
                                      !.dials = pool.dials + 1,
                                      !.dialled = TRUE, !.result = "Ok"]
               \/ pool' = [Called("create", h, 0)
                               EXCEPT !.dialled = TRUE, !.result = "Err"]
    /\ UNCHANGED << SessionVars, pad, codec, auth >>

\* cleanup_idle_sessions: with more than min_idle_sessions sessions in the
\* pool, as many as are in excess are popped from the front and closed.
CleanupIdleSessions ==
    LET excess == IF Len(pool.idle) > pool.min_idle_sessions
                  THEN Len(pool.idle) - pool.min_idle_sessions
                  ELSE 0
        popped == { pool.idle[i] : i \in 1 .. excess }
    IN  [Called("cleanup", "task", 0)
            EXCEPT !.idle = SubSeq(pool.idle, excess + 1, Len(pool.idle)),
                   !.idle_for = SubSeq(pool.idle_for, excess + 1, Len(pool.idle)),
                   !.ended = @ \cup popped,
                   !.reaped = popped]

\* One round of the task of start_cleanup_task: interval.tick(), the load
\* of the closed flag of the task's own clone of the Client, made in
\* Client::new, then break or cleanup_idle_sessions.
CleanupTick ==
    /\ pool.pc = "run"
    /\ pool.task = "running"
    /\ pool' = IF ClosedFlag("task")
               THEN [Called("task_stop", "task", 0) EXCEPT !.task = "stopped"]
               ELSE CleanupIdleSessions
    /\ UNCHANGED << SessionVars, pad, codec, auth >>

\* The Client value h exists: the clone once Client::clone was called.
HandleExists(h) ==
    h = "main" \/ pool.clone_made

\* The callers return sessions the Client dialled.
NextClient ==
    \/ \E h \in ClientHandles : HandleExists(h) /\ CreateStream(h)
    \/ \E h \in ClientHandles, session \in 1 .. MaxDials :
           /\ HandleExists(h)
           /\ session <= pool.dials
           /\ ReturnToIdleOn(h, session)
    \/ \E h \in ClientHandles : HandleExists(h) /\ ClientCloseOn(h)
    \/ ClientClone
    \/ \E session \in 1 .. MaxDials : SessionCloses(session)
    \/ \E session \in 1 .. MaxDials : SessionFails(session)
    \/ TimePasses
    \/ CleanupTick

SpecClient ==
    InitPool /\ [][NextClient]_vars

(***************************************************************************)
(* handle_connection of the server on its own (bin/server/main.rs)         *)
(***************************************************************************)
\* The 32 + 2 bytes of the authentication block.
AuthPasswordLen == 32
AuthBlockLen == 34

\* Sha256::digest(password) of the server's password, computed outside
\* handle_connection: 32 bytes, here 1, 2, .., 32.
PasswordSha256 ==
    [i \in 1 .. AuthPasswordLen |-> i]

\* The first 32 bytes a client can send: the digest, and the digest with its
\* first or its last byte changed.
AuthPasswords ==
    { PasswordSha256,
      [PasswordSha256 EXCEPT ![1] = 0],
      [PasswordSha256 EXCEPT ![AuthPasswordLen] = 0] }

\* The padding lengths a client can announce.
AuthPaddingLens == {0, 1, 2, 256}

\* What a client can send: nothing but a part of the block; or the block,
\* the announced padding or one byte less of it, and then nothing or the
\* header of a SETTINGS frame.
AuthInputs ==
    { SubSeq(PasswordSha256, 1, 10) }
        \cup UNION { { pw \o PutU16(len) \o Zeros(sent) \o rest :
                           pw \in AuthPasswords,
                           sent \in { n \in {len - 1, len} : n >= 0 },
                           rest \in { << >>, ToBytes(FrameNew(CMD_SETTINGS, 0)) } } :
                       len \in AuthPaddingLens }

InitAuth ==
    /\ is_client = FALSE
    /\ SessionInit
    /\ pad = PadOff
    /\ codec = CodecOff
    /\ pool = PoolOff
    /\ auth \in { [AuthOff EXCEPT !.pc = "read_auth", !.input = in] : in \in AuthInputs }

\* tls_stream.read_exact(&mut auth_data) of 34 bytes: an Err when the client
\* sends less and stops.
AuthRead ==
    /\ auth.pc = "read_auth"
    /\ auth' = IF Len(auth.input) < AuthBlockLen
               THEN [auth EXCEPT !.pc = "err", !.pos = Len(auth.input)]
               ELSE [auth EXCEPT !.pc = "check", !.pos = AuthBlockLen]
    /\ UNCHANGED << SessionVars, pad, codec, pool >>

\* A faulty AuthPaddingLen: only the low byte is taken.
AuthPaddingLenLowByte(auth_data) ==
    auth_data[AuthBlockLen]

\* u16::from_be_bytes([auth_data[32], auth_data[33]])
AuthPaddingLen(auth_data) ==
    GetU16(auth_data, AuthPasswordLen + 1)

\* The comparison with password_sha256: return Ok(()) on a mismatch, which
\* drops the connection; else the padding length is taken from the block.
AuthCheck ==
    /\ auth.pc = "check"
    /\ auth' = IF SubSeq(auth.input, 1, AuthPasswordLen) # PasswordSha256
               THEN [auth EXCEPT !.pc = "rejected"]
               ELSE [auth EXCEPT !.pc = "read_padding",
                                 !.padding_len = AuthPaddingLen(SubSeq(auth.input, 1,
                                                                       AuthBlockLen))]
    /\ UNCHANGED << SessionVars, pad, codec, pool >>

\* read_exact of padding_len bytes when padding_len > 0.
AuthReadPadding ==
    /\ auth.pc = "read_padding"
    /\ auth' = IF auth.padding_len > 0 /\ Len(auth.input) - auth.pos < auth.padding_len
               THEN [auth EXCEPT !.pc = "err", !.pos = Len(auth.input)]
               ELSE [auth EXCEPT !.pc = "new_session", !.pos = auth.pos + auth.padding_len]
    /\ UNCHANGED << SessionVars, pad, codec, pool >>

\* Session::new_server(..) and session.run().
AuthNewSession ==
    /\ auth.pc = "new_session"
    /\ auth' = [auth EXCEPT !.pc = "run", !.session = TRUE]
    /\ UNCHANGED << SessionVars, pad, codec, pool >>

\* recv_loop of the new session: read_exact of the first frame header, once
\* the client has sent one.
AuthFirstHeader ==
    /\ auth.pc = "run"
    /\ Len(auth.input) - auth.pos >= HEADER_OVERHEAD_SIZE
    /\ auth' = [auth EXCEPT !.pc = "header_read", !.header_at = auth.pos,
                            !.pos = auth.pos + HEADER_OVERHEAD_SIZE]
    /\ UNCHANGED << SessionVars, pad, codec, pool >>

NextAuth ==
    \/ AuthRead
    \/ AuthCheck
    \/ AuthReadPadding
    \/ AuthNewSession
    \/ AuthFirstHeader

SpecAuth ==
    InitAuth /\ [][NextAuth]_vars

(***************************************************************************)
(* The frame codec on its own: a stream write of a buffer, the encoding of *)
(* its PSH frame onto the transport, and the decoding of what was written  *)
(***************************************************************************)
\* Payloads of 0 .. MaxCodecPayload bytes are taken with every content over
\* CodecBytes; the long payloads are all zeros.
MaxCodecPayload == 2

CodecBytes == {0, 255}

\* Payload lengths around the range of the 16-bit length field, and the
\* 70000 bytes of a single large stream write.
CodecLongLens == {255, 256, 65535, 65536, 70000}

CodecCmds == {CMD_WASTE, CMD_PSH, CMD_SERVER_SETTINGS, 11, 255}

\* sids over the four bytes of the field (TLC's integers end at 2^31 - 1).
CodecSids == {0, 1, 123, 16909060, 2147483647}

CodecPayloads ==
    UNION { [1 .. n -> CodecBytes] : n \in 0 .. MaxCodecPayload }

CodecFrames ==
    { FrameWithData(cmd, sid, data) :
          cmd \in CodecCmds, sid \in CodecSids, data \in CodecPayloads }
        \cup { FrameWithData(CMD_PSH, 1, Zeros(n)) : n \in CodecLongLens }

InitCodec ==
    /\ is_client = FALSE
    /\ SessionInit
    /\ pad = PadOff
    /\ codec \in { [CodecOff EXCEPT !.pc = "frame", !.frame = f] : f \in CodecFrames }
    /\ pool = PoolOff
    /\ auth = AuthOff

\* write_frame on a session that neither buffers nor pads: frame.to_bytes()
\* (which returns a buffer, never an error) and conn.write_all(data).
CodecToBytes ==
    /\ codec.pc = "frame"
    /\ codec' = [codec EXCEPT !.pc = "written", !.wire = ToBytes(codec.frame),
                              !.err = FALSE]
    /\ UNCHANGED << SessionVars, pad, pool, auth >>

\* Frame::from_bytes on the bytes written.
CodecFromBytes ==
    /\ codec.pc = "written"
    /\ codec' = [codec EXCEPT !.pc = "read", !.parsed = FromBytes(codec.wire)]
    /\ UNCHANGED << SessionVars, pad, pool, auth >>

NextCodec ==
    \/ CodecToBytes
    \/ CodecFromBytes

SpecCodec ==
    InitCodec /\ [][NextCodec]_vars

(***************************************************************************)
(* Properties                                                              *)
(***************************************************************************)
\* The write_frame call `sub` has bytes on the transport.
OnWire(sub) ==
    \E i \in DOMAIN transport : transport[i].sub = sub

\* The frame whose bytes the i-th write_all carried.
FrameOnWire(i) ==
    submitted[transport[i].sub].frame

RECURSIVE Concat(_)
Concat(ss) ==
    IF ss = << >> THEN << >> ELSE Head(ss) \o Concat(Tail(ss))

NotWaste(f) ==
    f.cmd # CMD_WASTE

\* C1: on a client session SETTINGS is the first frame written to the
\* transport: whatever the interleaving of run and open_stream, the first
\* bytes on the transport are those of the SETTINGS frame.
C1_SettingsFirstOnWire ==
    (is_client /\ transport # << >>) => FrameOnWire(1).cmd = CMD_SETTINGS

\* C2: a frame deferred into the buffer is written when buffering ends: once
\* open_stream has returned the stream sid, the SYN of sid is on the transport.
C2_SynOnWireAfterOpen ==
    \A k \in DOMAIN submitted :
        (submitted[k].frame.cmd = CMD_SYN /\ submitted[k].frame.sid \in opened)
            => OnWire(k)

\* C3: on a session that is not closed, a HEART_REQUEST with sid s read by
\* the pump leads to a HEART_RESPONSE with sid s and no payload on the
\* transport and to the pump back at the head of its loop (or to the session
\* being closed meanwhile).
C3_HeartbeatAnswered ==
    \A s \in InboundSids :
        (s \in hb_seen /\ ~closed) ~>
            \/ closed
            \/ /\ \E i \in DOMAIN transport :
                       FrameOnWire(i) = FrameNew(CMD_HEART_RESPONSE, s)
               /\ pc["run"] \in {"recv_loop", "recv_read"}

\* C4: if write_frame(A) is submitted before write_frame(B) and bytes of B are
\* on the transport, then the bytes of A are on the transport, before B's.
C4_SubmissionOrderOnWire ==
    \A a, b \in DOMAIN submitted :
        (a < b /\ OnWire(b)) =>
            /\ OnWire(a)
            /\ \A i, j \in DOMAIN transport :
                   (transport[i].sub = a /\ transport[j].sub = b) => i < j

C6_StreamPshInOrder ==
    /\ \A k \in returned : submitted[k].frame.cmd = CMD_PSH => OnWire(k)
    /\ \A i, j \in DOMAIN transport :
           ( /\ i < j
             /\ FrameOnWire(i).cmd = CMD_PSH
             /\ FrameOnWire(j).cmd = CMD_PSH
             /\ FrameOnWire(i).sid = FrameOnWire(j).sid )
               => FrameOnWire(i).data[1] <= FrameOnWire(j).data[1]

\* C7: the pkt values assigned to the submissions of one session, through
\* the session or through a clone, are strictly increasing.
C7_PktStrictlyIncreasing ==
    \A i, j \in DOMAIN pktlog : i < j => pktlog[i].pkt < pktlog[j].pkt

\* C9: the bytes a padded submission of E puts on the transport, parsed as
\* frames with the WASTE frames dropped, are the frames of E and nothing else.
C9_PaddedBytesParseBack ==
    (pad.pc = "done" /\ ~pad.out.panic) =>
        LET p == ParseFrames(Concat(pad.out.writes))
        IN  /\ p.rest = << >>
            /\ SelectSeq(p.frames, NotWaste) = ParseFrames(pad.data).frames

LiveHandle(h) ==
    h = "s" \/ pc[h] # "unborn"

\* C8 as stated: in every state pkt_counter >= padding.stop implies that
\* send_padding is false.
C8_StopImpliesPaddingOff ==
    \A h \in Handles : pkt_counter[h] >= padding.stop => ~send_padding[h]

\* The step writes bytes of a submission made through h that observed
\* pkt >= padding.stop.
WritesPastStop(h) ==
    /\ Len(transport') > Len(transport)
    /\ LET e == transport'[Len(transport')]
       IN  /\ submitted[e.sub].h = h
           /\ \E k \in DOMAIN pktlog :
                  pktlog[k].sub = e.sub /\ pktlog[k].pkt >= padding.stop

\* C8 (amended): on every Session value, a submission that observes
\* pkt >= padding.stop has set send_padding to false when its bytes are
\* written, and send_padding, once false, is never true again.
C8_ClearedAtStopStaysCleared ==
    [][ \A h \in Handles :
            /\ (LiveHandle(h) /\ ~send_padding[h]) => ~send_padding'[h]
            /\ WritesPastStop(h) => ~send_padding'[h] ]_vars

\* A submission that observed pkt >= padding.stop is on the transport and
\* send_padding of its Session value is false.
C8_Witness ==
    \E k \in DOMAIN pktlog :
        /\ pktlog[k].pkt >= padding.stop
        /\ OnWire(pktlog[k].sub)
        /\ ~send_padding[pktlog[k].h]

U16Max == 65535

\* C11: for a frame with cmd in 0..255, a sid and a payload of at most 65535
\* bytes, from_bytes(to_bytes(f)) succeeds, returns cmd, sid and payload of
\* f, and reads the whole encoding.
C11_DecodeOfEncode ==
    (codec.pc = "read" /\ Len(codec.frame.data) <= U16Max) =>
        /\ codec.parsed.ok
        /\ codec.parsed.frame = codec.frame
        /\ codec.parsed.used = Len(codec.wire)

\* A frame with one of the long payloads of at most 65535 bytes went
\* through to_bytes and from_bytes.
C11_Witness ==
    /\ codec.pc = "read"
    /\ Len(codec.frame.data) \in CodecLongLens
    /\ Len(codec.frame.data) <= U16Max
    /\ codec.parsed.ok
    /\ Len(codec.parsed.frame.data) = Len(codec.frame.data)

\* C12: encoding fails exactly when the payload is longer than 65535 bytes,
\* a failed encoding puts no byte on the transport, and the length field of
\* every header written is the number of payload bytes that follow it.
C12_EncodeFailsIffTooLong ==
    codec.pc \in {"written", "read"} =>
        /\ codec.err <=> Len(codec.frame.data) > U16Max
        /\ codec.err => codec.wire = << >>
        /\ codec.wire # << >> =>
               GetU16(codec.wire, 6) = Len(codec.wire) - HEADER_OVERHEAD_SIZE

C14_SynOpensStream ==
    \A sid \in Sids :
        (~is_client /\ \E i \in DOMAIN handled : handled[i] = FrameNew(CMD_SYN, sid)) ~>
            /\ sid \in streams \cup closed_sids
            /\ sid \in opened
            /\ \E i \in DOMAIN transport : FrameOnWire(i) = FrameNew(CMD_SYNACK, sid)

\* C15: on a server, a SYN that arrives for a registered sid leads to a
\* SYNACK for the sid with a non-empty payload on the transport (unless the
\* stream was closed before the SYN was handled).
C15_DuplicateSynRejected ==
    \A sid \in Sids :
        (/\ ~is_client
         /\ sid \in streams
         /\ inbound # << >>
         /\ Head(inbound) = FrameNew(CMD_SYN, sid)) ~>
            \/ sid \in closed_sids
            \/ \E i \in DOMAIN transport :
                   /\ FrameOnWire(i).cmd = CMD_SYNACK
                   /\ FrameOnWire(i).sid = sid
                   /\ FrameOnWire(i).data # << >>

\* C16: a server registers no stream and answers no SYN unless the first
\* frame it handled was a SETTINGS frame.
C16_NoStreamBeforeSettings ==
    (/\ ~is_client
     /\ \/ streams # {}
        \/ \E i \in DOMAIN submitted : submitted[i].frame.cmd = CMD_SYNACK) =>
        /\ handled # << >>
        /\ handled[1].cmd = CMD_SETTINGS

\* The SETTINGS frames a server handled whose padding-md5 is another one
\* than the digest of the server's scheme.
SettingsWithOtherMd5 ==
    { i \in DOMAIN handled :
        /\ handled[i].cmd = CMD_SETTINGS
        /\ KeyPaddingMd5 \in DOMAIN StringMapFromBytes(handled[i].data)
        /\ StringMapFromBytes(handled[i].data)[KeyPaddingMd5] # padding.md5 }

\* C17: a server whose handled SETTINGS frames all carry the digest of its
\* own scheme has made no write of an UPDATE_PADDING_SCHEME frame.
C17_SameMd5NoUpdate ==
    (~is_client /\ SettingsWithOtherMd5 = {}) =>
        \A i \in DOMAIN submitted : submitted[i].frame.cmd # CMD_UPDATE_PADDING_SCHEME

\* A server handled a SETTINGS frame with the digest of its own scheme, went
\* through the comparison, and made no UPDATE_PADDING_SCHEME write.
C17_Witness ==
    /\ ~is_client
    /\ \E i \in DOMAIN handled :
           /\ handled[i].cmd = CMD_SETTINGS
           /\ KeyPaddingMd5 \in DOMAIN StringMapFromBytes(handled[i].data)
           /\ StringMapFromBytes(handled[i].data)[KeyPaddingMd5] = padding.md5
    /\ pc["run"] = "recv_loop"
    /\ \A i \in DOMAIN submitted : submitted[i].frame.cmd # CMD_UPDATE_PADDING_SCHEME

\* C18: on a server, a handled SETTINGS frame with a version of 2 or more
\* and another padding-md5 leads to an UPDATE_PADDING_SCHEME frame carrying
\* the server's raw scheme on the transport, followed by a SERVER_SETTINGS
\* frame with the body v=2.
C18_OtherMd5UpdateThenServerSettings ==
    (/\ ~is_client
     /\ \E i \in SettingsWithOtherMd5 :
            WantsServerSettings(StringMapFromBytes(handled[i].data))) ~>
        \E i, j \in DOMAIN transport :
            /\ i < j
            /\ FrameOnWire(i) = FrameWithData(CMD_UPDATE_PADDING_SCHEME, 0, padding.raw)
            /\ FrameOnWire(j) = FrameWithData(CMD_SERVER_SETTINGS, 0, ServerSettingsBody)

\* The UPDATE_PADDING_SCHEME frames a client handled whose payload is a
\* scheme.
SchemeUpdates ==
    { i \in DOMAIN handled :
        /\ handled[i].cmd = CMD_UPDATE_PADDING_SCHEME
        /\ PaddingFactoryNew(handled[i].data).ok }

\* C19: once a client has handled an UPDATE_PADDING_SCHEME frame whose
\* payload is a scheme, the digest of its active scheme is the digest of the
\* payload of the last such frame.
C19_SchemeReplaced ==
    (is_client /\ SchemeUpdates # {}) =>
        \E i \in SchemeUpdates :
            /\ \A j \in SchemeUpdates : j <= i
            /\ padding.md5 = Md5(handled[i].data)

\* C20: a client that handled an UPDATE_PADDING_SCHEME frame whose payload
\* is no scheme keeps its scheme, and its pump has not ended.
C20_BadSchemeNotFatal ==
    (/\ is_client
     /\ \E i \in DOMAIN handled :
            /\ handled[i].cmd = CMD_UPDATE_PADDING_SCHEME
            /\ handled[i].data # << >>
            /\ ~PaddingFactoryNew(handled[i].data).ok) =>
        /\ padding = ModelScheme
        /\ pc["run"] # "run_done"

C29_AuthBeforeFrames ==
    LET mismatch == /\ Len(auth.input) >= AuthBlockLen
                    /\ SubSeq(auth.input, 1, AuthPasswordLen) # PasswordSha256
    IN  /\ ~auth.wrote
        /\ auth.pc \in {"check", "rejected"} => auth.pos = AuthBlockLen
        /\ (mismatch /\ auth.pc # "read_auth") => auth.pc \in {"check", "rejected"}
        /\ auth.pc \in {"rejected", "err"} => ~auth.session
        /\ auth.session =>
               /\ SubSeq(auth.input, 1, AuthPasswordLen) = PasswordSha256
               /\ auth.pos >= AuthBlockLen + auth.input[33] * 256 + auth.input[34]
        /\ auth.pc = "header_read" =>
               auth.header_at = AuthBlockLen + auth.input[33] * 256 + auth.input[34]

\* A client with the right digest announced 256 bytes of padding, and the
\* server has read the first frame header behind them.
C29_Witness ==
    /\ auth.pc = "header_read"
    /\ auth.padding_len = 256
    /\ auth.session

(***************************************************************************)
(* The streams of a session                                                *)
(***************************************************************************)
\* C21: once an ALERT frame has been handled, with any payload, the empty
\* one included, the pump has stopped and Session::run has ended, and the
\* ALERT is the last frame that was handled.
C21_AlertStopsPump ==
    \A i \in 1 .. Len(handled) :
        handled[i].cmd = CMD_ALERT =>
            /\ pc["run"] = "run_done"
            /\ i = Len(handled)

\* poll_read returns Poll::Pending: the stream is not closed, nothing is
\* buffered or queued, and the sender of its data channel is still in
\* Session.streams.
ReadWouldBlock(sid) ==
    /\ sid \in opened
    /\ ~strm[sid].dropped
    /\ ~strm[sid].closed
    /\ strm[sid].read_buffer = << >>
    /\ data_ch[sid] = << >>
    /\ sid \in streams

\* recv_loop, and with it Session::run, has returned the Err of an ALERT
\* frame that carries a text.
PumpEndedByAlert ==
    /\ pc["run"] = "run_done"
    /\ handled # << >>
    /\ handled[Len(handled)].cmd = CMD_ALERT
    /\ handled[Len(handled)].data # << >>

\* C22: once the pump has ended with a fatal error, every registered
\* stream is closed with BrokenPipe: no read on it waits, and a write on it
\* fails with BrokenPipe.
C22_FatalEndClosesStreams ==
    [][PumpEndedByAlert =>
         \A sid \in opened \cap streams :
             ~strm[sid].dropped =>
                 /\ ~ReadWouldBlock(sid)
                 /\ rlog'[sid].writes # rlog[sid].writes =>
                        rlog'[sid].writes[Len(rlog'[sid].writes)] = "BrokenPipe"]_vars

\* C23: after Session::close the pump is cancelled, also while it waits for
\* bytes of the transport, so it handles no further frame; no read on a
\* registered stream waits, and a write on it returns BrokenPipe.
C23_CloseCancelsPumpAndStreams ==
    [][closed =>
         /\ handled' = handled
         /\ \A sid \in opened \cap streams :
                ~strm[sid].dropped =>
                    /\ ~ReadWouldBlock(sid)
                    /\ rlog'[sid].writes # rlog[sid].writes =>
                           rlog'[sid].writes[Len(rlog'[sid].writes)] = "BrokenPipe"]_vars

\* a is a prefix of b.
IsPrefix(a, b) ==
    /\ Len(a) <= Len(b)
    /\ SubSeq(b, 1, Len(a)) = a

C25_LocalCloseDrainsThenEof ==
    [][\A sid \in opened :
           rlog[sid].shutdowns > 0 =>
               /\ (~rlog[sid].eof /\ rlog'[sid].eof) =>
                      /\ strm[sid].read_buffer = << >>
                      /\ data_ch[sid] = << >>
               /\ rlog'[sid].writes # rlog[sid].writes =>
                      rlog'[sid].writes[Len(rlog'[sid].writes)] = "BrokenPipe"]_vars

\* The FIN frames stream sid has put on its frame channel so far: those
\* still queued and those its writer task has taken.
FinsEnqueued(sid) ==
    Cardinality({ i \in 1 .. Len(frame_ch[sid]) : frame_ch[sid][i].cmd = CMD_FIN })
        + Cardinality({ i \in 1 .. Len(submitted) :
                            /\ submitted[i].task = WriterName(sid)
                            /\ submitted[i].frame.cmd = CMD_FIN })

\* C26: a shutdown or a drop of a stream that is closed already changes
\* nothing but the fact that the Stream value is gone after a drop: the flag
\* stays set and no frame is enqueued; and a stream has never enqueued more
\* than one FIN.
C26_CloseIsIdempotent ==
    [][\A sid \in opened :
           /\ FinsEnqueued(sid)' <= 1
           /\ (/\ strm[sid].closed
               /\ \/ rlog'[sid].shutdowns # rlog[sid].shutdowns
                  \/ strm'[sid].dropped # strm[sid].dropped) =>
                  /\ frame_ch' = frame_ch
                  /\ strm'[sid] = [strm[sid] EXCEPT !.dropped = strm'[sid].dropped]
                  /\ UNCHANGED << streams, data_ch, submitted, closed >>]_vars

\* Stream 1 was shut down twice and then dropped, and its one FIN is queued
\* or written.
C26_Witness ==
    /\ rlog[1].shutdowns = 2
    /\ strm[1].dropped
    /\ FinsEnqueued(1) = 1

\* Stream sid is closed: by the application, or by a FIN that took it out of
\* Session.streams.
StreamIsClosed(sid) ==
    \/ strm[sid].closed
    \/ sid \in closed_sids

\* C27: the step that closes stream 1, a shutdown, a drop or the handling of
\* its FIN, changes nothing of stream 2; and with stream 1 closed, stream 2
\* stays registered, a PSH for it is put on its data channel, what is read
\* from it are the delivered bytes in order with no EOF, and a write on it
\* returns Ok.
C27_SiblingUnaffected ==
    [][/\ (~StreamIsClosed(1) /\ StreamIsClosed(1)') \/ strm'[1] # strm[1] =>
              /\ (2 \in streams') = (2 \in streams)
              /\ data_ch'[2] = data_ch[2]
              /\ frame_ch'[2] = frame_ch[2]
              /\ strm'[2] = strm[2]
              /\ rlog'[2] = rlog[2]
       /\ (StreamIsClosed(1) /\ 2 \in opened) =>
              /\ 2 \in streams'
              /\ (/\ handled' # handled
                  /\ handled'[Len(handled')] = FrameWithData(CMD_PSH, 2, << 8, 9 >>)) =>
                     data_ch'[2] = Append(data_ch[2], << 8, 9 >>)
              /\ IsPrefix(rlog'[2].got, rlog'[2].delivered)
              /\ ~rlog'[2].eof
              /\ rlog'[2].writes # rlog[2].writes =>
                     rlog'[2].writes[Len(rlog'[2].writes)] = "Ok"]_vars

\* Stream 1 was shut down by the application and its FIN from the peer was
\* handled; the PSH for stream 2 came after that FIN and was read, and
\* stream 2 was written to.
C27_Witness ==
    /\ strm[1].closed
    /\ handled = << FrameNew(CMD_FIN, 1), FrameWithData(CMD_PSH, 2, << 8, 9 >>) >>
    /\ closed_sids = {1}
    /\ rlog[2].got = << 8, 9 >>
    /\ rlog[2].writes = << "Ok", "Ok" >>

\* C28: when the pump handles a PSH for a registered stream whose data
\* channel holds its 100 items, the frame is consumed, every data channel
\* stays as it is and the pump is back at the head of its loop; and with
\* that channel full, a later PSH for another registered stream is put on
\* that stream's data channel.  No data channel ever holds more than 100
\* items.
C28_FullQueueDropsPsh ==
    [][/\ \A sid \in Sids : Len(data_ch'[sid]) <= FrameChannelCap
       /\ handled' # handled =>
              LET f == handled'[Len(handled')]
              IN  /\ (/\ f.cmd = CMD_PSH
                      /\ f.sid \in streams
                      /\ Len(data_ch[f.sid]) = FrameChannelCap) =>
                         /\ data_ch' = data_ch
                         /\ inbound' = Tail(inbound)
                         /\ pc'["run"] = "recv_loop"
                  /\ (/\ f.cmd = CMD_PSH
                      /\ f.sid \in streams
                      /\ ~strm[f.sid].dropped
                      /\ Len(data_ch[f.sid]) < FrameChannelCap
                      /\ \E full \in Sids : Len(data_ch[full]) = FrameChannelCap) =>
                         data_ch' = [data_ch EXCEPT ![f.sid] = Append(@, f.data)]]_vars

\* The data channel of stream 1 holds the first 100 payloads in order, the
\* 101st PSH, for stream 1 as well, was handled and is not in it, and the
\* 102nd, for stream 2, was handled after that and read by the application.
C28_Witness ==
    /\ Len(handled) = FrameChannelCap + 2
    /\ data_ch[1] = [k \in 1 .. FrameChannelCap |-> FloodPayload(k)]
    /\ handled[FrameChannelCap + 1].sid = 1
    /\ handled[FrameChannelCap + 2].sid = 2
    /\ rlog[2].got = FloodPayload(FrameChannelCap + 2)
    /\ pc["run"] = "recv_read"

C32_ReclaimOnlyTimedOut ==
    [][pool'.op = "cleanup" =>
           /\ pool'.reaped \subseteq { pool.idle[i] : i \in DOMAIN pool.idle }
           /\ \A i \in DOMAIN pool.idle :
                  pool.idle[i] \in pool'.reaped => pool.idle_for[i] >= IdleTimeout
           /\ Len(pool'.idle) >= Min(pool.min_idle_sessions, Len(pool.idle))]_vars

\* C33: return_to_idle does not store a session that was closed or whose
\* run has failed, and create_stream calls open_stream only on a session
\* that is neither.
C33_DeadSessionNotHandedOut ==
    [][/\ (pool'.op = "return" /\ pool'.arg \in pool.ended \cup pool.failed) =>
              pool'.idle = pool.idle
       /\ (pool'.op = "create" /\ pool'.used # 0) =>
              pool'.used \notin pool.ended \cup pool.failed]_vars

\* C39: once Client::close has returned on the Client or on its clone, every
\* Client value acts as closed: the cleanup task does no further cleanup,
\* create_stream on any of them returns BrokenPipe, return_to_idle on any of
\* them stores nothing, and the pool stays empty.
C39_CloseSeenByEveryClone ==
    [][(pool.closed \/ pool.clone_closed) =>
           /\ pool'.op # "cleanup"
           /\ pool'.op = "create" => pool'.result = "BrokenPipe"
           /\ pool'.op = "return" => pool'.idle = pool.idle
           /\ pool'.idle = << >>]_vars

\* C40: when a create_stream has got its Stream from a session that is
\* still alive, a later create_stream on an open Client is served without
\* dialling.
C40_SessionReused ==
    [][(/\ pool'.op = "create"
        /\ ~ClosedFlag(pool'.handle)
        /\ pool.served \ (pool.ended \cup pool.failed) # {}) =>
           ~pool'.dialled]_vars

\* C34: on every Session value pkt_counter changes only by one, in a write
\* made while send_padding is true and buffering is off (the spawn of a
\* writer, which gives its clone the copied value, apart), and it never
\* exceeds padding.stop.
C34_PktCounterOncePerPaddedWrite ==
    [][\A h \in Handles :
           /\ pkt_counter'[h] # pkt_counter[h] =>
                  \/ h # "s" /\ pc[h] = "unborn"
                  \/ /\ pkt_counter'[h] = pkt_counter[h] + 1
                     /\ send_padding[h]
                     /\ ~buffering[h]
           /\ pkt_counter'[h] <= padding.stop]_vars

\* C35: once the first open_stream has ended buffering, no write through the
\* session or through the clone of a writer task is deferred into the buffer.
C35_NoBufferingAfterFirstOpen ==
    [][opened # {} => buffer' = buffer]_vars

(***************************************************************************)
(* The answer of the peer to a SYN: SYNACK frames for stream 1             *)
(***************************************************************************)
\* The text of a SYNACK that reports a failure.
SynackError ==
    << 110, 111 >>

\* The frames the peer can send to a session that has opened stream 1.
SynackFrames ==
    { FrameNew(CMD_SYNACK, 1),
      FrameWithData(CMD_SYNACK, 1, SynackError),
      FrameWithData(CMD_PSH, 1, << 1, 2 >>) }

\* handle_frame for CMD_SYNACK: on a client the stream is looked up and one
\* of three lines is logged (error text, opened, unknown stream); a server
\* logs a warning.  Nothing of the session or of the stream is changed.
RecvSynack ==
    /\ pc["run"] = "recv_read"
    /\ inbound # << >>
    /\ Head(inbound).cmd = CMD_SYNACK
    /\ inbound' = Tail(inbound)
    /\ handled' = Append(handled, Head(inbound))
    /\ pc' = [pc EXCEPT !["run"] = "recv_loop"]
    /\ UNCHANGED << pad, codec, pool, auth, strm, rlog, data_ch, closed_sids,
                    is_client, padding, closed, settings_sent, next_stream_id,
                    streams, pkt_counter, send_padding, buffering, buffer,
                    conn_holder, conn_waiters, transport, frame_ch, cur, snap,
                    app_sid, opened, n_writes, n_inbound, submitted, returned,
                    pktlog, hb_seen >>

\* Session::run with a peer that sends SYNACK and PSH frames.
SynackRunStep ==
    \/ RunStart
    \/ StoreBuffering
    \/ RecvLock
    \/ RecvLocked
    \/ RecvCheckClosed
    \/ RecvPsh
    \/ RecvSynack
    \/ WriteConn("run")
    \/ WriteAll("run")

\* One stream: the application opens stream 1, reads and writes it; the peer
\* sends SynackFrames.
NextSynack ==
    \/ SynackRunStep
    \/ AppStep
    \/ WriterStep(1)
    \/ OpenFirstStream
    \/ StreamWrite(1)
    \/ \E n \in ReadSizes : StreamRead(1, n)
    \/ \E f \in SynackFrames : PeerSendStream(f)

SpecSynack ==
    Init /\ [][NextSynack]_vars

\* The step handles frame f: recv_loop has passed it to handle_frame.
HandlesFrame(f) ==
    handled' = Append(handled, f)

\* C36: on a client, the step that handles a SYNACK for a registered stream
\* takes the stream out of Session.streams and closes it (reads end, writes
\* fail) when the SYNACK carries a payload, and leaves the stream registered
\* and as it was when the payload is empty.
C36_SynackErrorClosesStream ==
    [][\A f \in SynackFrames :
           (f.cmd = CMD_SYNACK /\ is_client /\ f.sid \in streams /\ HandlesFrame(f)) =>
               IF f.data # << >>
               THEN f.sid \notin streams' /\ strm'[f.sid].closed
               ELSE f.sid \in streams' /\ strm' = strm]_vars

\* recv_loop holds the guard of `conn`.
PumpHoldsConn ==
    conn_holder = "recv_loop"

\* A write_frame call of the application or of a writer task waits for
\* `conn`.
WriteWaitsForConn ==
    \E i \in DOMAIN conn_waiters : conn_waiters[i] # "run"

\* C37: while the pump runs on a session that is not closed, a write_frame
\* call of the application or of a writer task that waits for `conn` leads to
\* no such call waiting any more: each has gone on to write its frame (or the
\* session is closed meanwhile), whether or not the peer sends anything.
C37_PumpNeverBlocksWrites ==
    (PumpHoldsConn /\ ~closed /\ WriteWaitsForConn) ~>
        (closed \/ ~WriteWaitsForConn)

(***************************************************************************)
(* A stream closed by the application: shutdown and drop of stream 1       *)
(***************************************************************************)
\* Session::run with a peer that sends FIN frames.
LocalCloseRunStep ==
    \/ RunStart
    \/ StoreBuffering
    \/ RecvLock
    \/ RecvLocked
    \/ RecvCheckClosed
    \/ RecvFin
    \/ WriteConn("run")
    \/ WriteAll("run")

\* The application opens stream 1, shuts it down and drops it; the peer may
\* send a FIN for it.
NextLocalClose ==
    \/ LocalCloseRunStep
    \/ AppStep
    \/ WriterStep(1)
    \/ OpenFirstStream
    \/ StreamShutdown(1)
    \/ StreamDrop(1)
    \/ PeerSendStream(FrameNew(CMD_FIN, 1))

SpecLocalClose ==
    Init /\ [][NextLocalClose]_vars

\* Session::run, open_stream and the writer task of the stream are tasks the
\* scheduler runs whenever they can go on; the application and the peer act
\* as they like.
FairSpecLocalClose ==
    /\ SpecLocalClose
    /\ WF_vars(LocalCloseRunStep)
    /\ WF_vars(AppStep)
    /\ WF_vars(WriterStep(1))

\* C38: a stream the application has closed, by shutdown or by drop, leads
\* to its sid being out of Session.streams.
C38_LocalCloseUnregisters ==
    strm[1].closed ~> 1 \notin streams

====
